---- MODULE Spec2Model ----
(***************************************************************************)
(* The MCP bridge of ppt-kit, in three parts that share no state:          *)
(*  - the relay (src/src/mcp/server/index.ts, the bridge-server part,      *)
(*    lines 622-1003): one nullable executor WebSocket, the pending-       *)
(*    request map of sendToBrowser, the 30 s timers, and the operations    *)
(*    object (mock or bridged) the relay binds into the dispatcher;        *)
(*  - the bridge client of the add-in (src/unnamed/part_007): its socket,  *)
(*    connection state, reconnect timer and attempt counter;               *)
(*  - the in-browser dispatcher (src/src/mcp/server/browser.ts): the       *)
(*    operations object it is bound to, the tool calls in flight, and the  *)
(*    listeners its events are handed to.                                  *)
(* Every action is one callback turn of the event loop; the relay's close  *)
(* handler is split at its `await`.  Spec runs the relay, ClientSpec the   *)
(* client and DispatcherSpec the dispatcher.                               *)
(***************************************************************************)
EXTENDS Integers, Sequences, FiniteSets, TLC

\* ------------------------------------------------------------------ bounds
\* Number of executor sockets that may ever connect to /ws in a run.
MaxSockets == 2
\* Number of Operation Contract calls issued in a run.
MaxCalls == 2

Sockets == 1..MaxSockets
\* Values Date.now() may return when an id is built: calls within the same
\* millisecond, the case in which only the counter tells their ids apart.
Times == {1000}

\* ------------------------------------------------------- program constants
\* `let browserConnection: WebSocket | null = null`
NULL == 0

NotConnectedError == "Browser not connected. Please open the Office Add-in."
TimeoutError == "Request timeout: Browser did not respond in time"
Undefined == "undefined"

\* The nine methods of PPTOperations.
Methods ==
  {"getPresentationInfo", "createSlide", "deleteSlide", "addText", "addCode",
   "addMermaid", "addImage", "listSlides", "generateFromMarkdown"}
\* The methods the dispatcher issues in a run: one the mock backend refuses
\* and one it answers with a placeholder.
CalledMethods == {"createSlide", "listSlides"}

\* Values of the results the mock backend returns, as JSON text.
MockPresentationInfo ==
  "{slideCount:0,currentSlideIndex:0,title:'No Presentation (Browser not connected)',author:'',slides:[]}"
MockSlideList == "{total:0,slides:[],hasMore:false}"
MockParsedSlides == "{slideCount:n,slides:parseMarkdown(markdown)}"

\* ------------------------------------------------------------------- state
VARIABLES
  browserConnection,  \* the attached executor socket, or NULL
  currentOperations,  \* "mock" | "bridged": the object given to setPPTOperations
  readyState,         \* ws.readyState of every socket ("none" before it connects)
  closeAwait,         \* socket whose close handler is suspended at its await, or NULL
  requestId,          \* the module-level counter
  pendingRequests,    \* Map id -> PendingRequest
  timers,             \* armed setTimeout handles (named by the call that armed them)
  promises,           \* the promise of every call issued so far
  sent                \* frames written to every socket

relayVars ==
  <<browserConnection, currentOperations, readyState, closeAwait, requestId,
    pendingRequests, timers, promises, sent>>

\* ============================================================ bridge client
\* The MCP bridge client of the add-in (src/unnamed/part_007): one nullable
\* WebSocket, the connection state, the reconnect timer and its attempt
\* counter.  Every action is one task of the browser's event loop.

\* Number of connect(), disconnect() and setServerUrl() calls made by the
\* add-in's own code in a run.
MaxUserCalls == 2

\* `private maxReconnectAttempts = 10`
maxReconnectAttempts == 10
\* `private reconnectDelay = 2000`
reconnectDelay == 2000
\* Delays are kept in units of 1/512 ms, so that 2000 * 1.5^k is an integer
\* for every k the counter can take.
DelayScale == 512

\* The WebSocket objects alive at one time: every call of the add-in can
\* leave one more socket or timer behind.  A slot is used again once its
\* socket has delivered its close event.
ClientSockets == 1..(MaxUserCalls + 1)
\* The setTimeout handles armed at one time.
TimerHandles == 1..(MaxUserCalls + 1)
\* URLs the add-in may be given: one the WebSocket constructor accepts and
\* one for which it throws (SyntaxError).
ServerUrls == {"ws://localhost:3100/ws", "ftp://x/"}
DefaultServerUrl == "ws://localhost:3100/ws"
\* The Event object a socket hands to onerror.
ErrorDetail == "Event{type:error}"

VARIABLES
  state,              \* 'disconnected' | 'connecting' | 'connected' | 'error'
  ws,                 \* this.ws: the client's socket, or NULL
  reconnectTimer,     \* this.reconnectTimer: a timer handle, or NULL
  reconnectAttempts,  \* this.reconnectAttempts
  serverUrl,          \* this.serverUrl
  socket,             \* readyState of every WebSocket the client created
  pendingTimers,      \* handles of the armed window.setTimeout timers
  timerDelay,         \* the delay each armed timer was given (1/512 ms)
  emitted,            \* the events given to emitEvent in the latest task
  lastTask,           \* the task that ran last
  userCalls,          \* connect/disconnect/setServerUrl calls made so far
  userDisconnected    \* disconnect() was called and connect() was not since

clientVars ==
  <<state, ws, reconnectTimer, reconnectAttempts, serverUrl, socket,
    pendingTimers, timerDelay, emitted, lastTask, userCalls, userDisconnected>>

\* =============================================================== dispatcher
\* The in-browser dispatcher (src/src/mcp/server/browser.ts): the operations
\* object it is bound to, its running flag, its per-tool statistics and the
\* tool calls it was asked to run.

\* Number of tools/call requests handled in a run.
MaxToolCalls == 2
\* Number of setOperations() calls in a run.
MaxInstalls == 1

\* The operations objects, named by the order in which they were installed:
\* the constructor installs the first.
ConstructorOperations == 0

\* Tools of the catalogue called in a run, and a name that is not in it.
RegisteredTools == {"ppt_add_content", "ppt_list_slides"}
UnknownTool == "ppt_no_such_tool"
\* Values of the content_type argument of ppt_add_content.
ContentTypes == {"text", "audio"}
NoOperation == "none"
\* Requests that are not tools/call: a method of the switch of handleRequest,
\* and one that is not in it.
OtherMethods == {"ping", "resources/list"}
\* Most `started` and `stopped` events of a run.
MaxLifecycle == 3
\* The ids connectClient and disconnectClient are called with.
Clients == {"c1"}

VARIABLES
  running,     \* this.running
  operations,  \* this.operations: the operations object bound now
  toolCalls,   \* every request handled so far
  toolStats,   \* this.toolStats
  lifecycle,   \* the `started` and `stopped` events emitted so far
  clients      \* this.clients: the ids of the connected clients

dispatcherVars == <<running, operations, toolCalls, toolStats, lifecycle, clients>>

\* The dispatcher after construction (lines 66-79, 334-343).
DispatcherInit ==
  /\ running = FALSE
  /\ operations = ConstructorOperations
  /\ toolCalls = <<>>
  /\ toolStats = [t \in RegisteredTools |-> [calls |-> 0, errors |-> 0]]
  /\ lifecycle = <<>>
  /\ clients = {}

\* ==================================================== markdown parser state
\* Longest token list of a document, and calls of parseMarkdown in a run.
MaxTokens == 4
MaxParses == 3

\* Tokens of marked.lexer as parseMarkdown reads them (interface ParsedToken):
\* headings of depth 1, 2 and 3, a paragraph, a code fence without language, a
\* mermaid fence, and a thematic break.
Heading(depth, text) ==
  [type |-> "heading", depth |-> depth, lang |-> "", text |-> text]
Paragraph == [type |-> "paragraph", depth |-> 0, lang |-> "", text |-> "hello"]
Code(lang) == [type |-> "code", depth |-> 0, lang |-> lang, text |-> "x = 1"]
ThematicBreak == [type |-> "hr", depth |-> 0, lang |-> "", text |-> ""]
TokenKinds ==
  {Heading(1, "A"), Heading(2, "B"), Heading(3, "C"), Paragraph, Code(""),
   Code("mermaid"), ThematicBreak}
\* The token lists marked.lexer may return.
Documents == UNION {[1..n -> TokenKinds] : n \in 0..MaxTokens}

VARIABLES
  tokens,      \* marked.lexer(markdown) of the document
  results      \* what each call parseMarkdown(markdown) has returned, in order

parserVars == <<tokens, results>>

\* A document is at hand and nothing has been parsed.
ParserInit ==
  /\ tokens \in Documents
  /\ results = <<>>
\* The parser is not in use.
ParserIdle ==
  /\ tokens = <<>>
  /\ results = <<>>

\* ================================================ markdown-to-slides tool state
\* Most headings in a document given to ppt_from_markdown.
MaxHeadings == 3
\* `const CHARACTER_LIMIT = 25000`
CHARACTER_LIMIT == 25000

\* Heading texts: a text of `length` characters, named by the character it
\* repeats.
Title(char, length) == [char |-> char, length |-> length]
Titles == {Title("a", 5), Title("b", 9000), Title("c", 13000)}
\* params.markdown, as the texts of its level-1 and level-2 heading lines.
Markdowns == UNION {[1..n -> Titles] : n \in 0..MaxHeadings}
ResponseFormats == {"json", "markdown"}
NoResponse == [given |-> FALSE]

VARIABLES
  markdown,     \* params.markdown of the call
  toolResponse  \* what the handler returned

toolVars == <<markdown, toolResponse>>

\* A call of the tool is about to be handled.
ToolInit ==
  /\ markdown \in Markdowns
  /\ toolResponse = NoResponse
\* The tool is not in use.
ToolIdle ==
  /\ markdown = <<>>
  /\ toolResponse = NoResponse

\* ================================================= request execution state
\* Request frames the bridge client is sent in a run.
MaxRequests == 1
\* Calls of sendEvent in a run that find the socket open.
MaxEvents == 1
\* Methods named by the requests: one that needs Office.js, one that does
\* not, and one executeMethod does not know.
RequestMethods == {"listSlides", "generateFromMarkdown", "noSuchMethod"}

VARIABLES
  officeAvailable,  \* this.officeAvailable, set once by the constructor
  requests,         \* the request frames handled so far and how far each got
  sentFrames        \* every frame the client wrote, with the socket it wrote to

executorVars == <<officeAvailable, requests, sentFrames>>

\* The client after construction, in or out of PowerPoint.
ExecutorInit ==
  /\ officeAvailable \in BOOLEAN
  /\ requests = <<>>
  /\ sentFrames = <<>>
\* The client is sent no request.
ExecutorIdle ==
  /\ officeAvailable = FALSE
  /\ requests = <<>>
  /\ sentFrames = <<>>

\* ================================================== event listeners state
\* Listener functions of a run, and the longest the array of registrations
\* grows: a function may be registered more than once.
MaxListeners == 3
MaxRegistrations == 3
Listeners == 1..MaxListeners
\* What a listener does when it is handed an event: it returns, it throws, or
\* it calls the function addEventListener returned for it and then throws.
ListenerKinds == {"returns", "throws", "unsubscribesAndThrows"}
NoEmission == [emitted |-> FALSE]

VARIABLES
  eventListeners,  \* this.eventListeners: the array, in registration order
  listenerKind,    \* what each listener function does
  emission         \* the latest call of emitEvent: who was registered, who was called

listenerVars == <<eventListeners, listenerKind, emission>>

\* No listener is registered; the listener functions are what they are.
ListenerInit ==
  /\ eventListeners = <<>>
  /\ listenerKind \in [Listeners -> ListenerKinds]
  /\ emission = NoEmission
\* Nobody listens.
ListenerIdle ==
  /\ eventListeners = <<>>
  /\ listenerKind = [l \in Listeners |-> "returns"]
  /\ emission = NoEmission

vars ==
  <<relayVars, clientVars, dispatcherVars, parserVars, toolVars, executorVars,
    listenerVars>>

\* What the relay's handlers leave alone.
beyondRelay ==
  <<clientVars, dispatcherVars, parserVars, toolVars, executorVars, listenerVars>>
\* What the client's connection handling leaves alone.
beyondClient ==
  <<relayVars, dispatcherVars, parserVars, toolVars, executorVars, listenerVars>>
\* What the dispatcher's methods leave alone; the listeners they hand their
\* events to are not among it.
beyondDispatcher == <<relayVars, clientVars, parserVars, toolVars, executorVars>>
\* What the parser leaves alone.
beyondParser ==
  <<relayVars, clientVars, dispatcherVars, toolVars, executorVars, listenerVars>>
\* What the markdown-to-slides tool leaves alone.
beyondTool ==
  <<relayVars, clientVars, dispatcherVars, parserVars, executorVars, listenerVars>>
\* What the client's message handling leaves alone.
beyondExecutor == <<relayVars, dispatcherVars, parserVars, toolVars, listenerVars>>
\* What the listener registry leaves alone.
beyondListeners ==
  <<relayVars, clientVars, dispatcherVars, parserVars, toolVars, executorVars>>

\* The client after construction (field initialisers, lines 33-39).
ClientInit ==
  /\ state = "disconnected"
  /\ ws = NULL
  /\ reconnectTimer = NULL
  /\ reconnectAttempts = 0
  /\ serverUrl = DefaultServerUrl
  /\ socket = [k \in ClientSockets |-> "none"]
  /\ pendingTimers = {}
  /\ timerDelay = [h \in TimerHandles |-> 0]
  /\ emitted = <<>>
  /\ lastTask = "constructor"
  /\ userCalls = 0
  /\ userDisconnected = FALSE

\* ----------------------------------------------------------------- helpers
\* Map.set / Map.delete / Map.has on a map kept as a function.
MapHas(m, k) == k \in DOMAIN m
MapSet(m, k, v) == [x \in (DOMAIN m) \cup {k} |-> IF x = k THEN v ELSE m[x]]
EmptyMap == [x \in {} |-> x]
\* Faulty variant of delete: clear() in place of delete(key).
MapClear(m, k) == EmptyMap
MapDelete(m, k) == [x \in (DOMAIN m) \ {k} |-> m[x]]

\* A promise settles once: resolve/reject on a settled promise do nothing.
Resolve(p, value) ==
  IF p.state = "pending" THEN [p EXCEPT !.state = "resolved", !.result = value] ELSE p
Reject(p, message) ==
  IF p.state = "pending" THEN [p EXCEPT !.state = "rejected", !.error = message] ELSE p
NewPromise(method, id) ==
  [method |-> method, id |-> id, state |-> "pending", error |-> "", result |-> Undefined]


\* ------------------------------------------------------------ sendToBrowser
\* Faulty variant: the counter is read but not incremented.
NextRequestIdStuck(counter) == counter
\* `++requestId`
NextRequestId(counter) == counter + 1

\* `req-${++requestId}-${Date.now()}`
MakeRequestId(counter, now) == "req-" \o ToString(counter) \o "-" \o ToString(now)

\* The request frame written to the socket (params are carried opaquely and
\* play no part in the relay, so the frame keeps type, id and method).
RequestFrame(id, method) == [type |-> "request", id |-> id, method |-> method]
\* The welcome frame of the connection handler.
ConnectedFrame == [type |-> "connected", id |-> "", method |-> ""]

\* Faulty variant: the readyState test is left out.
NotConnectedNullOnly(conn, rs) == conn = NULL
\* `!browserConnection || browserConnection.readyState !== WebSocket.OPEN`
NotConnected(conn, rs) == conn = NULL \/ rs[conn] # "open"

\* The PendingRequest stored for the call numbered `call`: its resolve and
\* reject continuations and the handle of the timer it armed.
PendingRequest(call) == [resolve |-> call, reject |-> call, timeout |-> call]

\* Faulty variant: no timer is armed.
ArmTimeoutNever(armed, call) == armed
\* setTimeout(..., 30000): the set of armed handles after arming one more.
ArmTimeout(armed, call) == armed \cup {call}

\* sendToBrowser(method, params) run in the current state by the call numbered
\* `call`, with Date.now() = now: the promise it returns and the state it leaves.
SendToBrowser(call, method, now) ==
  IF NotConnected(browserConnection, readyState)
  THEN [promise |-> Reject(NewPromise(method, ""), NotConnectedError),
        requestId |-> requestId,
        pendingRequests |-> pendingRequests,
        timers |-> timers,
        sent |-> sent]
  ELSE LET n == NextRequestId(requestId)
           id == MakeRequestId(n, now)
       IN [promise |-> NewPromise(method, id),
           requestId |-> n,
           pendingRequests |-> MapSet(pendingRequests, id, PendingRequest(call)),
           timers |-> ArmTimeout(timers, call),
           sent |-> [sent EXCEPT ![browserConnection] = Append(@, RequestFrame(id, method))]]

\* createBridgedOperations(): every method forwards to sendToBrowser.
BridgedOperations(call, method, now) == SendToBrowser(call, method, now)

\* Faulty variant: every mock method answers with a placeholder.
MockOutcomeAllSucceed(method) == Resolve(NewPromise(method, ""), MockSlideList)
\* What a mock method does: a placeholder value, a local parse, or a throw.
MockOutcome(method) ==
  CASE method = "getPresentationInfo" ->
         Resolve(NewPromise(method, ""), MockPresentationInfo)
    [] method = "listSlides" ->
         Resolve(NewPromise(method, ""), MockSlideList)
    [] method = "generateFromMarkdown" ->
         Resolve(NewPromise(method, ""), MockParsedSlides)
    [] OTHER ->
         Reject(NewPromise(method, ""), NotConnectedError)

\* createMockOperations(): no method touches the bridge state.
MockOperations(call, method, now) ==
  [promise |-> MockOutcome(method),
   requestId |-> requestId,
   pendingRequests |-> pendingRequests,
   timers |-> timers,
   sent |-> sent]

\* A method of the operations object `ops` invoked in the current state.
Operations(ops, call, method, now) ==
  IF ops = "bridged"
  THEN BridgedOperations(call, method, now)
  ELSE MockOperations(call, method, now)

\* ------------------------------------------------------------------ actions
RelayInit ==
  /\ browserConnection = NULL
  /\ currentOperations = "mock"
  /\ readyState = [s \in Sockets |-> "none"]
  /\ closeAwait = NULL
  /\ requestId = 0
  /\ pendingRequests = EmptyMap
  /\ timers = {}
  /\ promises = <<>>
  /\ sent = [s \in Sockets |-> <<>>]

\* The relay, the bridge client and the dispatcher after construction.
Init ==
  /\ RelayInit /\ ClientInit /\ DispatcherInit /\ ParserIdle /\ ToolIdle
  /\ ExecutorIdle /\ ListenerIdle

\* No I/O callback or timer runs while a continuation is queued as a microtask.
Idle == closeAwait = NULL

\* The dispatcher calls `method` on the operations object bound at that moment.
InvokeOperation(method, now) ==
  /\ Idle
  /\ Len(promises) < MaxCalls
  /\ LET call == Len(promises) + 1
         r == Operations(currentOperations, call, method, now)
     IN /\ promises' = Append(promises, r.promise)
        /\ requestId' = r.requestId
        /\ pendingRequests' = r.pendingRequests
        /\ timers' = r.timers
        /\ sent' = r.sent
  /\ UNCHANGED <<browserConnection, currentOperations, readyState, closeAwait>>
  /\ UNCHANGED beyondRelay

\* Faulty variant: the previous socket is left open.
EvictNothing(rs, conn) == rs
\* `if (browserConnection) browserConnection.close(1000, ...)`: close() moves
\* an OPEN socket to CLOSING and does nothing to one already closing.
EvictPrevious(rs, conn) ==
  IF conn # NULL /\ rs[conn] = "open" THEN [rs EXCEPT ![conn] = "closing"] ELSE rs

\* wss.on('connection'): socket s is accepted.  Sockets are numbered in the
\* order the server accepts them.
Connection(s) ==
  /\ Idle
  /\ readyState[s] = "none"
  /\ \A t \in Sockets : t < s => readyState[t] # "none"
  /\ readyState' = [EvictPrevious(readyState, browserConnection) EXCEPT ![s] = "open"]
  /\ browserConnection' = s
  /\ currentOperations' = "bridged"
  /\ sent' = [sent EXCEPT ![s] = Append(@, ConnectedFrame)]
  /\ UNCHANGED <<closeAwait, requestId, pendingRequests, timers, promises>>
  /\ UNCHANGED beyondRelay

\* The peer starts the closing handshake: readyState leaves OPEN before the
\* close event is delivered.
SocketClosing(s) ==
  /\ Idle
  /\ readyState[s] = "open"
  /\ readyState' = [readyState EXCEPT ![s] = "closing"]
  /\ UNCHANGED <<browserConnection, currentOperations, closeAwait, requestId,
                 pendingRequests, timers, promises, sent>>
  /\ UNCHANGED beyondRelay

\* Faulty variant: the close handler does not test which socket closed.
CloseUnguarded(s) ==
  /\ Idle
  /\ readyState[s] \in {"open", "closing"}
  /\ readyState' = [readyState EXCEPT ![s] = "closed"]
  /\ browserConnection' = NULL
  /\ closeAwait' = s
  /\ UNCHANGED <<currentOperations, requestId, pendingRequests, timers, promises, sent>>
  /\ UNCHANGED beyondRelay
\* Faulty variant: the close handler rejects and forgets what is pending.
CloseRejectsPending(s) ==
  /\ Idle
  /\ readyState[s] \in {"open", "closing"}
  /\ readyState' = [readyState EXCEPT ![s] = "closed"]
  /\ IF browserConnection = s
     THEN /\ browserConnection' = NULL
          /\ closeAwait' = s
     ELSE UNCHANGED <<browserConnection, closeAwait>>
  /\ pendingRequests' = EmptyMap
  /\ timers' = {}
  /\ promises' = [c \in DOMAIN promises |->
                    IF promises[c].state = "pending"
                    THEN Reject(promises[c], NotConnectedError) ELSE promises[c]]
  /\ UNCHANGED <<currentOperations, requestId, sent>>
  /\ UNCHANGED beyondRelay
\* ws.on('close'), up to its await.
Close(s) ==
  /\ Idle
  /\ readyState[s] \in {"open", "closing"}
  /\ readyState' = [readyState EXCEPT ![s] = "closed"]
  /\ IF browserConnection = s
     THEN /\ browserConnection' = NULL
          /\ closeAwait' = s
     ELSE UNCHANGED <<browserConnection, closeAwait>>
  /\ UNCHANGED <<currentOperations, requestId, pendingRequests, timers, promises, sent>>
  /\ UNCHANGED beyondRelay

\* Faulty variant: the continuation leaves the bridged operations bound.
CloseResumeKeepsBridged ==
  /\ closeAwait # NULL
  /\ closeAwait' = NULL
  /\ UNCHANGED <<browserConnection, currentOperations, readyState, requestId,
                 pendingRequests, timers, promises, sent>>
  /\ UNCHANGED beyondRelay
\* ws.on('close'), after `await createMockOperations()`.
CloseResume ==
  /\ closeAwait # NULL
  /\ currentOperations' = "mock"
  /\ closeAwait' = NULL
  /\ UNCHANGED <<browserConnection, readyState, requestId, pendingRequests,
                 timers, promises, sent>>
  /\ UNCHANGED beyondRelay

\* `if (message.error)`: JavaScript truthiness of the frame's error field.
HasError(frame) == frame.hasError /\ frame.error # ""

\* The frames an executor may send.  A response names an id, and carries an
\* result or an error string (possibly the empty one).
ResponseBodies ==
  {[hasError |-> FALSE, error |-> "", result |-> "r1"],
   [hasError |-> TRUE, error |-> "slide not found", result |-> Undefined],
   [hasError |-> TRUE, error |-> "", result |-> Undefined]}
UnknownId == "req-0-0"
IssuedIds == {promises[c].id : c \in 1..Len(promises)} \ {""}
ResponseFrame(i, b) ==
  [type |-> "response", id |-> i, hasError |-> b.hasError, error |-> b.error,
   result |-> b.result]
\* The ids the executor behind socket s has been sent.
ReceivedIds(s) == {sent[s][i].id : i \in 1..Len(sent[s])} \ {""}
\* A response on socket s names any id: the handler looks the id up in the
\* one pendingRequests map, whichever socket the request was written to.  The
\* ids that matter are those the relay issued and one it never issued.
ResponseFrames(s) ==
  {ResponseFrame(i, b) : i \in IssuedIds \cup {UnknownId}, b \in ResponseBodies}
OtherFrames ==
  {[type |-> t, id |-> "", hasError |-> FALSE, error |-> "", result |-> Undefined] :
     t \in {"event", "malformed"}}
Frames(s) == ResponseFrames(s) \cup OtherFrames

\* ws.on('message') of socket s receiving `frame`.
\* Faulty variant: a response settles the call and leaves its timer armed.
MessageKeepsTimer(s, frame) ==
  /\ Idle
  /\ readyState[s] \in {"open", "closing"}
  /\ IF frame.type = "response" /\ MapHas(pendingRequests, frame.id)
     THEN LET pending == pendingRequests[frame.id]
          IN /\ pendingRequests' = MapDelete(pendingRequests, frame.id)
             /\ promises' =
                  IF HasError(frame)
                  THEN [promises EXCEPT ![pending.reject] = Reject(@, frame.error)]
                  ELSE [promises EXCEPT ![pending.resolve] = Resolve(@, frame.result)]
     ELSE UNCHANGED <<pendingRequests, promises>>
  /\ UNCHANGED <<browserConnection, currentOperations, readyState, closeAwait,
                 requestId, sent, timers>>
  /\ UNCHANGED beyondRelay
Message(s, frame) ==
  /\ Idle
  /\ readyState[s] \in {"open", "closing"}
  /\ IF frame.type = "response" /\ MapHas(pendingRequests, frame.id)
     THEN LET pending == pendingRequests[frame.id]
          IN /\ timers' = timers \ {pending.timeout}
             /\ pendingRequests' = MapDelete(pendingRequests, frame.id)
             /\ promises' =
                  IF HasError(frame)
                  THEN [promises EXCEPT ![pending.reject] = Reject(@, frame.error)]
                  ELSE [promises EXCEPT ![pending.resolve] = Resolve(@, frame.result)]
     ELSE UNCHANGED <<timers, pendingRequests, promises>>
  /\ UNCHANGED <<browserConnection, currentOperations, readyState, closeAwait,
                 requestId, sent>>
  /\ UNCHANGED beyondRelay

\* Faulty variant: the callback rejects but leaves the entry in the map.
TimeoutKeepsEntry(call) ==
  /\ Idle
  /\ call \in timers
  /\ timers' = timers \ {call}
  /\ promises' = [promises EXCEPT ![call] = Reject(@, TimeoutError)]
  /\ UNCHANGED <<browserConnection, currentOperations, readyState, closeAwait,
                 requestId, sent, pendingRequests>>
  /\ UNCHANGED beyondRelay
\* Faulty variant: the callback empties the whole map.
TimeoutClearsAll(call) ==
  /\ Idle
  /\ call \in timers
  /\ timers' = timers \ {call}
  /\ pendingRequests' = EmptyMap
  /\ promises' = [promises EXCEPT ![call] = Reject(@, TimeoutError)]
  /\ UNCHANGED <<browserConnection, currentOperations, readyState, closeAwait,
                 requestId, sent>>
  /\ UNCHANGED beyondRelay
\* The setTimeout callback armed by the call numbered `call`.
Timeout(call) ==
  /\ Idle
  /\ call \in timers
  /\ timers' = timers \ {call}
  /\ pendingRequests' = MapDelete(pendingRequests, promises[call].id)
  /\ promises' = [promises EXCEPT ![call] = Reject(@, TimeoutError)]
  /\ UNCHANGED <<browserConnection, currentOperations, readyState, closeAwait,
                 requestId, sent>>
  /\ UNCHANGED beyondRelay

Next ==
  \/ \E m \in CalledMethods, now \in Times : InvokeOperation(m, now)
  \/ \E s \in Sockets : Connection(s)
  \/ \E s \in Sockets : SocketClosing(s)
  \/ \E s \in Sockets : Close(s)
  \/ CloseResume
  \/ \E s \in Sockets : \E frame \in Frames(s) : Message(s, frame)
  \/ \E call \in 1..MaxCalls : Timeout(call)

Spec == Init /\ [][Next]_vars

\* The event loop runs every queued continuation and every armed timer.
FairSpec ==
  /\ Spec
  /\ WF_vars(CloseResume)
  /\ \A call \in 1..MaxCalls : WF_vars(Timeout(call))

\* ============================================================ bridge client
\* The fields of the client object, as one value the methods transform.
Client ==
  [state |-> state, ws |-> ws, reconnectTimer |-> reconnectTimer,
   reconnectAttempts |-> reconnectAttempts, socket |-> socket,
   pendingTimers |-> pendingTimers, timerDelay |-> timerDelay,
   emitted |-> <<>>]

\* emitEvent(event): every listener is handed the event.
emitEvent(c, event) == [c EXCEPT !.emitted = Append(@, event)]
Event(type, data) == [type |-> type, data |-> data]

\* setState(state): a change of state is announced, a repeat is not.
setState(c, s) ==
  IF c.state # s
  THEN emitEvent([c EXCEPT !.state = s], Event("state_change", s))
  ELSE c

\* `this.reconnectDelay * Math.pow(1.5, this.reconnectAttempts)`, in 1/512 ms.
\* Faulty variant: the delay doubles with every attempt.
ReconnectDelayDoubling(attempts) == reconnectDelay * DelayScale * 2^attempts
\* Each factor 1.5 is taken as 3/2, which is exact in these units.
RECURSIVE ReconnectDelay(_)
ReconnectDelay(attempts) ==
  IF attempts = 0
  THEN reconnectDelay * DelayScale
  ELSE (ReconnectDelay(attempts - 1) * 3) \div 2

\* The handle window.setTimeout returns: one that names no armed timer.
FreshHandle(c) ==
  CHOOSE h \in TimerHandles \ c.pendingTimers :
    \A g \in TimerHandles \ c.pendingTimers : h <= g
\* The WebSocket `new WebSocket(url)` returns.
FreshSocket(c) ==
  CHOOSE k \in ClientSockets :
    /\ c.socket[k] = "none"
    /\ \A j \in ClientSockets : c.socket[j] = "none" => k <= j

\* scheduleReconnect(): arms a timer unless the attempts are used up.  An
\* earlier timer is neither cleared nor waited for.
scheduleReconnect(c) ==
  IF c.reconnectAttempts >= maxReconnectAttempts
  THEN c
  ELSE LET h == FreshHandle(c)
       IN [c EXCEPT !.reconnectTimer = h,
                    !.pendingTimers = @ \cup {h},
                    !.timerDelay[h] = ReconnectDelay(c.reconnectAttempts)]

\* `new WebSocket(url)` throws a SyntaxError for a URL whose scheme is none of
\* ws, wss, http, https.
ConstructorThrows(url) == url = "ftp://x/"

\* Faulty variant: the entry guard is left out.
connectUnguarded(c, url) ==
  LET c1 == setState(c, "connecting")
  IN IF ConstructorThrows(url)
     THEN scheduleReconnect(setState(c1, "error"))
     ELSE LET k == FreshSocket(c1)
          IN [c1 EXCEPT !.ws = k, !.socket[k] = "connecting"]
\* connect(): a no-op while connecting or connected; otherwise a new socket
\* with the four handlers attached, or the catch branch if the constructor
\* throws.
connect(c, url) ==
  IF c.state = "connecting" \/ c.state = "connected"
  THEN c
  ELSE LET c1 == setState(c, "connecting")
       IN IF ConstructorThrows(url)
          THEN scheduleReconnect(setState(c1, "error"))
          ELSE LET k == FreshSocket(c1)
               IN [c1 EXCEPT !.ws = k, !.socket[k] = "connecting"]

\* WebSocket.close(): starts the closing handshake of a socket that is
\* connecting or open.
CloseSocket(rs) == IF rs \in {"connecting", "open"} THEN "closing" ELSE rs

\* disconnect(): clears the timer the field names, closes the socket the field
\* names, and sets the state.
disconnect(c) ==
  LET c1 == IF c.reconnectTimer # NULL
            THEN [c EXCEPT !.pendingTimers = @ \ {c.reconnectTimer},
                           !.timerDelay[c.reconnectTimer] = 0,
                           !.reconnectTimer = NULL]
            ELSE c
      c2 == IF c1.ws # NULL
            THEN [c1 EXCEPT !.socket[c1.ws] = CloseSocket(@), !.ws = NULL]
            ELSE c1
  IN setState(c2, "disconnected")

\* isConnected()
isConnected(c) == c.state = "connected" /\ c.ws # NULL /\ c.socket[c.ws] = "open"

\* The fields after a task that left the client as c.
ClientBecomes(c) ==
  /\ state' = c.state
  /\ ws' = c.ws
  /\ reconnectTimer' = c.reconnectTimer
  /\ reconnectAttempts' = c.reconnectAttempts
  /\ socket' = c.socket
  /\ pendingTimers' = c.pendingTimers
  /\ timerDelay' = c.timerDelay
  /\ emitted' = c.emitted

\* A socket that failed has fired `error` and fires `close` in the same task:
\* nothing else runs in between.
ClientIdle == \A k \in ClientSockets : socket[k] # "failed"

\* The add-in calls connect().
Connect ==
  /\ ClientIdle
  /\ userCalls < MaxUserCalls
  /\ ClientBecomes(connect(Client, serverUrl))
  /\ lastTask' = "connect"
  /\ userCalls' = userCalls + 1
  /\ userDisconnected' = FALSE
  /\ UNCHANGED <<serverUrl, beyondClient>>

\* The add-in calls disconnect().
Disconnect ==
  /\ ClientIdle
  /\ userCalls < MaxUserCalls
  /\ ClientBecomes(disconnect(Client))
  /\ lastTask' = "disconnect"
  /\ userCalls' = userCalls + 1
  /\ userDisconnected' = TRUE
  /\ UNCHANGED <<serverUrl, beyondClient>>

\* The add-in calls setServerUrl(url): the URL is stored, and a connected
\* client is disconnected and connected again.
SetServerUrl(url) ==
  /\ ClientIdle
  /\ userCalls < MaxUserCalls
  /\ serverUrl' = url
  /\ IF isConnected(Client)
     THEN /\ ClientBecomes(connect(disconnect(Client), url))
          /\ userDisconnected' = FALSE
     ELSE /\ ClientBecomes(Client)
          /\ UNCHANGED userDisconnected
  /\ lastTask' = "setServerUrl"
  /\ userCalls' = userCalls + 1
  /\ UNCHANGED beyondClient

\* ws.onopen of socket k.
OnOpen(k) ==
  /\ ClientIdle
  /\ socket[k] = "connecting"
  /\ LET c1 == [Client EXCEPT !.socket[k] = "open"]
         c2 == [setState(c1, "connected") EXCEPT !.reconnectAttempts = 0]
     IN ClientBecomes(emitEvent(c2, Event("connected", "")))
  /\ lastTask' = "onopen"
  /\ UNCHANGED <<serverUrl, userCalls, userDisconnected, beyondClient>>

\* The server's Close frame reaches socket k: the browser answers it and the
\* socket is CLOSING until its close event is fired in a later task.  No
\* handler of the client runs, and this.ws and the state stay as they are.
ServerClose(k) ==
  /\ ClientIdle
  /\ socket[k] = "open"
  /\ ClientBecomes([Client EXCEPT !.socket[k] = "closing"])
  /\ lastTask' = "closeFrame"
  /\ UNCHANGED <<serverUrl, userCalls, userDisconnected, beyondClient>>

\* Faulty variant: the handler records the failure and tells nobody.
OnErrorSilent(k) ==
  /\ ClientIdle
  /\ socket[k] \in {"connecting", "open", "closing"}
  /\ ClientBecomes([Client EXCEPT !.socket[k] = "failed"])
  /\ lastTask' = "onerror"
  /\ UNCHANGED <<serverUrl, userCalls, userDisconnected, beyondClient>>
\* ws.onerror of socket k: the connection failed; the socket is CLOSED and its
\* close event follows.
OnError(k) ==
  /\ ClientIdle
  /\ socket[k] \in {"connecting", "open", "closing"}
  /\ LET c1 == [Client EXCEPT !.socket[k] = "failed"]
     IN ClientBecomes(emitEvent(setState(c1, "error"), Event("error", ErrorDetail)))
  /\ lastTask' = "onerror"
  /\ UNCHANGED <<serverUrl, userCalls, userDisconnected, beyondClient>>

\* Faulty variant: the handler does not run the reconnect scheduler.
OnCloseNoReconnect(k) ==
  /\ socket[k] \in {"open", "closing", "failed"}
  /\ ClientIdle \/ socket[k] = "failed"
  /\ LET c1 == [Client EXCEPT !.socket[k] = "none", !.ws = NULL]
     IN ClientBecomes(emitEvent(setState(c1, "disconnected"), Event("disconnected", "")))
  /\ lastTask' = "onclose"
  /\ UNCHANGED <<serverUrl, userCalls, userDisconnected, beyondClient>>
\* ws.onclose of socket k, whatever the close code.
OnClose(k) ==
  /\ socket[k] \in {"open", "closing", "failed"}
  /\ ClientIdle \/ socket[k] = "failed"
  /\ LET c1 == [Client EXCEPT !.socket[k] = "none", !.ws = NULL]
         c2 == emitEvent(setState(c1, "disconnected"), Event("disconnected", ""))
     IN ClientBecomes(scheduleReconnect(c2))
  /\ lastTask' = "onclose"
  /\ UNCHANGED <<serverUrl, userCalls, userDisconnected, beyondClient>>

\* The callback of the reconnect timer h: `this.reconnectAttempts++;
\* this.connect()`.
ReconnectTimer(h) ==
  /\ ClientIdle
  /\ h \in pendingTimers
  /\ LET c1 == [Client EXCEPT !.pendingTimers = @ \ {h},
                              !.timerDelay[h] = 0,
                              !.reconnectAttempts = @ + 1]
     IN ClientBecomes(connect(c1, serverUrl))
  /\ lastTask' = "reconnectTimer"
  /\ UNCHANGED <<serverUrl, userCalls, userDisconnected, beyondClient>>

ClientNext ==
  \/ Connect
  \/ Disconnect
  \/ \E url \in ServerUrls : SetServerUrl(url)
  \/ \E k \in ClientSockets : OnOpen(k)
  \/ \E k \in ClientSockets : ServerClose(k)
  \/ \E k \in ClientSockets : OnError(k)
  \/ \E k \in ClientSockets : OnClose(k)
  \/ \E h \in TimerHandles : ReconnectTimer(h)

ClientSpec == Init /\ [][ClientNext]_vars

\* A failed socket's close event is fired in the task that fired its error
\* event.
ClientFairSpec ==
  /\ ClientSpec
  /\ \A k \in ClientSockets : WF_vars(OnClose(k) /\ socket[k] = "failed")

\* ========================================================= event listeners
\* The function addEventListener returns: `indexOf(listener)`, then `splice`.
RemoveListener(list, l) ==
  IF \E n \in 1..Len(list) : list[n] = l
  THEN LET at == CHOOSE n \in 1..Len(list) :
                   list[n] = l /\ \A k \in 1..(n - 1) : list[k] # l
       IN SubSeq(list, 1, at - 1) \o SubSeq(list, at + 1, Len(list))
  ELSE list

Throws(kind) == kind \in {"throws", "unsubscribesAndThrows"}
\* `try { listener(event) } catch (e) { console.error(...) }`: what a listener
\* throws does not leave emitEvent.
Escapes(kind) == FALSE

\* emitEvent: `for (const listener of this.eventListeners)` walks the array
\* itself by index, so what a listener removes during the walk moves the
\* listeners behind it one place forward.
RECURSIVE EmitLoop(_, _, _)
EmitLoop(list, index, called) ==
  IF index > Len(list)
  THEN [eventListeners |-> list, called |-> called, completed |-> TRUE]
  ELSE LET listener == list[index]
           kind == listenerKind[listener]
           after == IF kind = "unsubscribesAndThrows"
                    THEN RemoveListener(list, listener) ELSE list
       IN IF Escapes(kind)
          THEN [eventListeners |-> after, called |-> Append(called, listener),
                completed |-> FALSE]
          ELSE EmitLoop(after, index + 1, Append(called, listener))

\* n calls of emitEvent in a row: each walks the array the one before left,
\* and the record is that of the last.
RECURSIVE EmitTimes(_, _, _)
EmitTimes(list, n, last) ==
  IF n = 0
  THEN [eventListeners |-> list, emission |-> last]
  ELSE LET done == EmitLoop(list, 1, <<>>)
       IN EmitTimes(done.eventListeners, n - 1,
                    [emitted |-> TRUE, registered |-> list,
                     called |-> done.called, completed |-> done.completed])
EmitEvents(n) ==
  LET after == EmitTimes(eventListeners, n, emission)
  IN /\ eventListeners' = after.eventListeners
     /\ emission' = after.emission
     /\ UNCHANGED listenerKind
\* emitEvent(event): the listeners are called, and the record of the call.
EmitEvent == EmitEvents(1)

\* addEventListener(listener): the function is pushed, registered or not.
AddEventListener(l) ==
  /\ Len(eventListeners) < MaxRegistrations
  /\ eventListeners' = Append(eventListeners, l)
  /\ UNCHANGED <<listenerKind, emission, beyondListeners>>

\* A function addEventListener returned for l is called, outside any
\* emission: the first registration of l goes (with none left, nothing does).
Unsubscribe(l) ==
  /\ \E n \in 1..Len(eventListeners) : eventListeners[n] = l
  /\ eventListeners' = RemoveListener(eventListeners, l)
  /\ UNCHANGED <<listenerKind, emission, beyondListeners>>

\* =============================================================== dispatcher
\* The Operation Contract method a tool handler invokes: ppt_add_content
\* switches on content_type and invokes nothing for a type it does not know.
HandlerMethod(tool, contentType) ==
  CASE tool = "ppt_list_slides" -> "listSlides"
    [] tool = "ppt_add_content" /\ contentType = "text" -> "addText"
    [] tool = "ppt_add_content" /\ contentType = "code" -> "addCode"
    [] tool = "ppt_add_content" /\ contentType = "image" -> "addImage"
    [] OTHER -> NoOperation

\* `this.operations.addText(...)`: the handler reads the field when it is
\* invoked, before its first await, and the method it then calls belongs to
\* that object whatever the field holds later.
ImplInvoked(ops) == ops
\* Faulty variant: the operation is served by the object bound when it settles.
ImplServingLatest(call, ops) == ops
\* The object whose method produces the call's outcome.
ImplServing(call, ops) == call.impl

\* Faulty variant: every tool name finds a handler.
IsRegisteredAlways(tool) == TRUE
\* `this.toolHandlers.get(toolName)` finds a handler.
IsRegistered(tool) == tool \in RegisteredTools

\* AddContentInputSchema (the only schema with a field the model varies):
\* content_type is one of text, code, image.
SchemaValid(tool, contentType) ==
  tool = "ppt_add_content" => contentType \in {"text", "code", "image"}

\* What an operation may do: return a value, throw an Error with a message,
\* or throw a value that is no Error.
Outcomes ==
  {[kind |-> "returned", message |-> ""],
   [kind |-> "Error", message |-> "Slide not found: slide-9"],
   [kind |-> "thrown", message |-> "boom"]}
\* Faulty variant: the message of the Error is dropped.
ErrorMessageGeneric(outcome) == "Unknown error"
\* `error instanceof Error ? error.message : 'Unknown error'`
ErrorMessage(outcome) ==
  IF outcome.kind = "Error" THEN outcome.message ELSE "Unknown error"

ErrorResponse(code, message) == [isError |-> TRUE, code |-> code, message |-> message]
\* The answer of a dispatcher that is not running.
NotRunningResponse == ErrorResponse(-32000, "Server not running")
ResultResponse == [isError |-> FALSE, code |-> 0, message |-> ""]
Pending == [isError |-> FALSE, code |-> 0, message |-> "pending"]
NoImpl == -1

ToolCall(tool, method, impl, response) ==
  [tool |-> tool, method |-> method, impl |-> impl, servedBy |-> NoImpl,
   settledUnder |-> NoImpl, response |-> response]

\* Faulty variant: start() has no `if (this.running) return`.
StartUnguarded ==
  /\ Len(lifecycle) < MaxLifecycle
  /\ running' = TRUE
  /\ lifecycle' = Append(lifecycle, "started")
  /\ EmitEvent
  /\ UNCHANGED <<operations, toolCalls, toolStats, clients, beyondDispatcher>>
\* start(): a no-op on a running server; otherwise the flag is set and
\* `started` is emitted.
Start ==
  /\ ~running => Len(lifecycle) < MaxLifecycle
  /\ IF running
     THEN UNCHANGED <<running, lifecycle, listenerVars>>
     ELSE /\ running' = TRUE
          /\ lifecycle' = Append(lifecycle, "started")
          /\ EmitEvent
  /\ UNCHANGED <<operations, toolCalls, toolStats, clients, beyondDispatcher>>

\* stop(): a no-op on a server that is not running; otherwise the flag is
\* cleared, every client is disconnected (one `client_disconnected` each)
\* and `stopped` is emitted.
Stop ==
  /\ running => Len(lifecycle) < MaxLifecycle
  /\ IF ~running
     THEN UNCHANGED <<running, lifecycle, clients, listenerVars>>
     ELSE /\ running' = FALSE
          /\ lifecycle' = Append(lifecycle, "stopped")
          /\ clients' = {}
          /\ EmitEvents(Cardinality(clients) + 1)
  /\ UNCHANGED <<operations, toolCalls, toolStats, beyondDispatcher>>

\* connectClient(clientId, sendFn): the client is set and `client_connected`
\* emitted, running or not.
ConnectClient(client) ==
  /\ clients' = clients \cup {client}
  /\ EmitEvent
  /\ UNCHANGED <<running, operations, toolCalls, toolStats, lifecycle,
                 beyondDispatcher>>

\* disconnectClient(clientId): the client is deleted and
\* `client_disconnected` emitted, connected or not.
DisconnectClient(client) ==
  /\ clients' = clients \ {client}
  /\ EmitEvent
  /\ UNCHANGED <<running, operations, toolCalls, toolStats, lifecycle,
                 beyondDispatcher>>

\* setOperations(operations): the field is assigned a new object.
SetOperations ==
  /\ operations < MaxInstalls
  /\ operations' = operations + 1
  /\ UNCHANGED <<running, toolCalls, toolStats, lifecycle, clients, listenerVars,
                 beyondDispatcher>>

\* handleRequest({method: 'tools/call', params: {name: tool, arguments}}), up
\* to `await handler(toolArgs)`: handleToolCall waits there also for a handler
\* that invokes no operation, and what its caller does next runs first.
HandleToolCall(tool, contentType) ==
  /\ Len(toolCalls) < MaxToolCalls
  /\ IF ~running
     THEN /\ toolCalls' = Append(toolCalls,
               ToolCall(tool, NoOperation, NoImpl, NotRunningResponse))
          /\ UNCHANGED toolStats
     ELSE IF ~IsRegistered(tool)
     THEN /\ toolCalls' = Append(toolCalls,
               ToolCall(tool, NoOperation, NoImpl, ErrorResponse(-32602, "Unknown tool: " \o tool)))
          /\ UNCHANGED toolStats
     ELSE LET method == HandlerMethod(tool, contentType)
          IN /\ toolStats' = [toolStats EXCEPT ![tool].calls = @ + 1]
             /\ toolCalls' = Append(toolCalls,
                  ToolCall(tool, method,
                           IF method = NoOperation THEN NoImpl
                           ELSE ImplInvoked(operations),
                           Pending))
  /\ UNCHANGED <<running, operations, lifecycle, clients, listenerVars,
                 beyondDispatcher>>

\* The handler of call i settles, and handleToolCall resumes after its
\* await: `tool_call` is emitted and the result answered, or `error` is
\* emitted and the error message of the operation answered.  A handler that
\* invoked no operation returns.  The notification broadcast to the clients
\* changes nothing here: what a client's send throws is caught.
OperationSettles(i, outcome) ==
  /\ i \in 1..Len(toolCalls)
  /\ toolCalls[i].response = Pending
  /\ toolCalls[i].method = NoOperation => outcome.kind = "returned"
  /\ toolCalls' =
       [toolCalls EXCEPT ![i].servedBy = ImplServing(toolCalls[i], operations),
                         ![i].settledUnder = operations,
                         ![i].response =
                            IF outcome.kind = "returned" THEN ResultResponse
                            ELSE ErrorResponse(-32000, ErrorMessage(outcome))]
  /\ toolStats' =
       IF outcome.kind = "returned" THEN toolStats
       ELSE [toolStats EXCEPT ![toolCalls[i].tool].errors = @ + 1]
  /\ EmitEvent
  /\ UNCHANGED <<running, operations, lifecycle, clients, beyondDispatcher>>

DispatcherNext ==
  \/ Start
  \/ Stop
  \/ SetOperations
  \/ \E tool \in RegisteredTools \cup {UnknownTool}, contentType \in ContentTypes :
       HandleToolCall(tool, contentType)
  \/ \E i \in 1..MaxToolCalls, outcome \in Outcomes : OperationSettles(i, outcome)
  \/ \E client \in Clients : ConnectClient(client)
  \/ \E client \in Clients : DisconnectClient(client)

DispatcherSpec == Init /\ [][DispatcherNext]_vars

\* handleRequest for a method other than tools/call: the answer of
\* handleInitialize or of `ping`, or the method-not-found error.
HandleRequest(method) ==
  /\ Len(toolCalls) < MaxToolCalls
  /\ toolCalls' = Append(toolCalls,
       ToolCall(method, NoOperation, NoImpl,
                IF ~running THEN NotRunningResponse
                ELSE IF method \in {"initialize", "tools/list", "ping"} THEN ResultResponse
                ELSE ErrorResponse(-32601, "Method not found: " \o method)))
  /\ UNCHANGED <<running, operations, toolStats, lifecycle, clients, listenerVars,
                 beyondDispatcher>>

RequestNext ==
  \/ Start
  \/ Stop
  \/ \E tool \in RegisteredTools \cup {UnknownTool}, contentType \in ContentTypes :
       HandleToolCall(tool, contentType)
  \/ \E i \in 1..MaxToolCalls, outcome \in Outcomes : OperationSettles(i, outcome)
  \/ \E client \in Clients : ConnectClient(client)
  \/ \E client \in Clients : DisconnectClient(client)
  \/ \E method \in OtherMethods : HandleRequest(method)

\* The dispatcher, bound to the operations it was constructed with, handling
\* requests of every method.
RequestSpec == Init /\ [][RequestNext]_vars

\* MCPClient.callTool: what the caller is given for a response.
ToolResult(response) ==
  IF response.isError
  THEN [success |-> FALSE, error |-> response.message]
  ELSE [success |-> TRUE, error |-> ""]


\* ------------------------------------------- listeners of the dispatcher
\* Listeners come and go while the dispatcher is started and stopped and
\* its clients connect and disconnect.
ListenerNext ==
  \/ \E l \in Listeners : AddEventListener(l)
  \/ \E l \in Listeners : Unsubscribe(l)
  \/ Start
  \/ Stop
  \/ \E client \in Clients : ConnectClient(client)
  \/ \E client \in Clients : DisconnectClient(client)

\* The listener functions exist; nothing else is in use.
ListenerStart ==
  /\ RelayInit /\ ClientInit /\ DispatcherInit /\ ParserIdle /\ ToolIdle
  /\ ExecutorIdle /\ ListenerInit

ListenerSpec == ListenerStart /\ [][ListenerNext]_vars


\* ======================================================= request execution
\* The id the relay gives its n-th request.
ExecutorRequestId(n) == "req-" \o ToString(n)
\* The frames the relay may send: its greeting, requests, and a request frame
\* that lacks its id.
ServerFrames ==
  {ConnectedFrame, RequestFrame("", "listSlides")}
    \cup {RequestFrame(ExecutorRequestId(n), m) : n \in 1..MaxRequests, m \in RequestMethods}

\* `if (this.ws?.readyState === WebSocket.OPEN) this.ws.send(...)`: the frame
\* goes to the socket the field names now, if that socket is open.
SendIfOpen(frames, frame) ==
  IF ws # NULL /\ socket[ws] = "open"
  THEN Append(frames, [socket |-> ws, frame |-> frame])
  ELSE frames
\* sendResponse(id, result)
sendResponse(frames, id, result) ==
  SendIfOpen(frames, ResponseFrame(id, [hasError |-> FALSE, error |-> "", result |-> result]))
\* sendError(id, error)
sendError(frames, id, error) ==
  SendIfOpen(frames, ResponseFrame(id, [hasError |-> TRUE, error |-> error, result |-> Undefined]))

\* executeMethod throws before its first await: Office.js is missing, or the
\* method is not one of the switch.
ThrowsAtOnce(method) ==
  \/ ~officeAvailable /\ method # "generateFromMarkdown"
  \/ method \notin Methods
ThrownAtOnce(method) ==
  IF ~officeAvailable /\ method # "generateFromMarkdown"
  THEN "Office.js not available. Please open this in PowerPoint."
  ELSE "Unknown method: " \o method

\* `message.type === 'request' && message.id && message.method`
IsRequest(frame) == frame.type = "request" /\ frame.id # "" /\ frame.method # ""

\* executeMethod returns without waiting: outside PowerPoint
\* generateFromMarkdown awaits parseMarkdown only, which never waits, and
\* returns the parsed slides.
ReturnsAtOnce(method) == ~officeAvailable /\ method = "generateFromMarkdown"

Request(frame, arrived, status) ==
  [id |-> frame.id, method |-> frame.method, socket |-> arrived, status |-> status]

\* ws.onmessage of socket k, up to the first await that waits: a request is
\* announced and its method started; a method that throws or returns at once
\* is answered in this task.
OnMessage(k, frame) ==
  /\ ClientIdle
  /\ socket[k] = "open"
  /\ Len(requests) < MaxRequests
  /\ IsRequest(frame) => frame.id = ExecutorRequestId(Len(requests) + 1)
  /\ IF IsRequest(frame)
     THEN /\ emitted' = <<Event("request", frame.method)>>
          /\ IF ThrowsAtOnce(frame.method)
             THEN /\ requests' = Append(requests, Request(frame, k, "settled"))
                  /\ sentFrames' = sendError(sentFrames, frame.id, ThrownAtOnce(frame.method))
             ELSE IF ReturnsAtOnce(frame.method)
             THEN /\ requests' = Append(requests, Request(frame, k, "settled"))
                  /\ sentFrames' = sendResponse(sentFrames, frame.id, frame.method)
             ELSE /\ requests' = Append(requests, Request(frame, k, "executing"))
                  /\ UNCHANGED sentFrames
     ELSE /\ emitted' = <<>>
          /\ UNCHANGED <<requests, sentFrames>>
  /\ lastTask' = "onmessage"
  /\ UNCHANGED <<state, ws, reconnectTimer, reconnectAttempts, serverUrl, socket,
                 pendingTimers, timerDelay, userCalls, userDisconnected>>
  /\ UNCHANGED <<officeAvailable, beyondExecutor>>

\* handleMessage after `await this.executeMethod(...)`: the result or the
\* error is sent.
MethodSettles(i, outcome) ==
  /\ ClientIdle
  /\ i \in 1..Len(requests)
  /\ requests[i].status = "executing"
  /\ requests' = [requests EXCEPT ![i].status = "settled"]
  /\ sentFrames' =
       IF outcome.kind = "returned"
       THEN sendResponse(sentFrames, requests[i].id, requests[i].method)
       ELSE sendError(sentFrames, requests[i].id, ErrorMessage(outcome))
  /\ lastTask' = "handleMessage"
  /\ emitted' = <<>>
  /\ UNCHANGED <<state, ws, reconnectTimer, reconnectAttempts, serverUrl, socket,
                 pendingTimers, timerDelay, userCalls, userDisconnected>>
  /\ UNCHANGED <<officeAvailable, beyondExecutor>>

\* The frame sendEvent(event, data) writes.
EventFrame ==
  [type |-> "event", id |-> "", hasError |-> FALSE, error |-> "", result |-> Undefined]

\* sendEvent(event, data): the add-in reports an event; the frame goes to the
\* socket the field names, if that socket is open, and nowhere otherwise.
SendEvent ==
  /\ ClientIdle
  /\ Cardinality({n \in 1..Len(sentFrames) : sentFrames[n].frame.type = "event"})
       < MaxEvents
  /\ sentFrames' = SendIfOpen(sentFrames, EventFrame)
  /\ lastTask' = "sendEvent"
  /\ emitted' = <<>>
  /\ UNCHANGED <<state, ws, reconnectTimer, reconnectAttempts, serverUrl, socket,
                 pendingTimers, timerDelay, userCalls, userDisconnected>>
  /\ UNCHANGED <<officeAvailable, requests, beyondExecutor>>

ExecutorNext ==
  \/ ClientNext
  \/ SendEvent
  \/ \E k \in ClientSockets : \E frame \in ServerFrames : OnMessage(k, frame)
  \/ \E i \in 1..MaxRequests : \E outcome \in Outcomes : MethodSettles(i, outcome)

\* The client has been constructed, in or out of PowerPoint.
ExecutorStart ==
  /\ RelayInit /\ ClientInit /\ DispatcherInit /\ ParserIdle /\ ToolIdle
  /\ ExecutorInit /\ ListenerIdle

ExecutorSpec == ExecutorStart /\ [][ExecutorNext]_vars


\* ========================================================= markdown parser
NoBlock == [type |-> "null", language |-> "", style |-> ""]
Block(type, language, style) == [type |-> type, language |-> language, style |-> style]
\* tokenToBlock: the content block of a token, or null.
tokenToBlock(token) ==
  CASE token.type = "paragraph" -> Block("text", "", "")
    [] token.type = "code" /\ token.lang = "mermaid" -> Block("mermaid", "", "")
    [] token.type = "code" /\ token.lang # "mermaid" ->
         Block("code", IF token.lang = "" THEN "plaintext" ELSE token.lang, "")
    [] token.type = "list" -> Block("list", "", "")
    [] token.type = "blockquote" -> Block("text", "", "backgroundColor")
    [] token.type = "heading" /\ token.depth > 2 -> Block("text", "", "bold")
    [] OTHER -> NoBlock

\* blocks.some(b => b.type === type)
HasBlock(blocks, type) == \E i \in 1..Len(blocks) : blocks[i].type = type

\* Faulty variant: a mermaid or image block is looked for before a code block.
determineLayoutImageFirst(slide) ==
  IF Len(slide.blocks) = 0 THEN "title"
  ELSE IF HasBlock(slide.blocks, "image") THEN "image-focus"
  ELSE IF HasBlock(slide.blocks, "mermaid") THEN "image-focus"
  ELSE IF HasBlock(slide.blocks, "code") /\ Len(slide.blocks) <= 2 THEN "code-focus"
  ELSE IF Len(slide.blocks) >= 4 THEN "two-column"
  ELSE "content"
\* determineLayout
determineLayout(slide) ==
  IF Len(slide.blocks) = 0 THEN "title"
  ELSE IF HasBlock(slide.blocks, "code") /\ Len(slide.blocks) <= 2 THEN "code-focus"
  ELSE IF HasBlock(slide.blocks, "image") THEN "image-focus"
  ELSE IF HasBlock(slide.blocks, "mermaid") THEN "image-focus"
  ELSE IF Len(slide.blocks) >= 4 THEN "two-column"
  ELSE "content"

\* `currentSlide = null`
NoSlide == [id |-> "", title |-> "", blocks |-> <<>>, layout |-> "null"]
\* `{ id: `slide-${slideIndex++}`, title, blocks: [], layout: 'content' }`
NewSlide(slideIndex, title) ==
  [id |-> "slide-" \o ToString(slideIndex), title |-> title, blocks |-> <<>>,
   layout |-> "content"]
\* `currentSlide.layout = determineLayout(currentSlide); slides.push(currentSlide)`
PushSlide(slides, currentSlide) ==
  IF currentSlide # NoSlide
  THEN Append(slides, [currentSlide EXCEPT !.layout = determineLayout(currentSlide)])
  ELSE slides
StartsSlide(token) == token.type = "heading" /\ token.depth \in {1, 2}

\* The loop of parseMarkdown over the tokens left, and what follows the loop.
RECURSIVE ParseTokens(_, _, _, _)
ParseTokens(left, slides, currentSlide, slideIndex) ==
  IF left = <<>>
  THEN PushSlide(slides, currentSlide)
  ELSE LET token == Head(left) IN
    IF StartsSlide(token)
    THEN ParseTokens(Tail(left), PushSlide(slides, currentSlide),
                     NewSlide(slideIndex, token.text), slideIndex + 1)
    ELSE LET started == IF currentSlide = NoSlide
                        THEN NewSlide(slideIndex, "") ELSE currentSlide
             index == IF currentSlide = NoSlide THEN slideIndex + 1 ELSE slideIndex
             block == tokenToBlock(token)
         IN ParseTokens(Tail(left), slides,
                        IF block # NoBlock
                        THEN [started EXCEPT !.blocks = Append(@, block)]
                        ELSE started,
                        index)

\* parseMarkdown, given what marked.lexer returned: `slides = []`,
\* `currentSlide = null` and `slideIndex = 0` are locals of the call.
parseMarkdown(lexed) == ParseTokens(lexed, <<>>, NoSlide, 0)

\* parseMarkdown is called on the document.
ParseMarkdown ==
  /\ Len(results) < MaxParses
  /\ results' = Append(results, parseMarkdown(tokens))
  /\ UNCHANGED tokens
  /\ UNCHANGED beyondParser

ParserNext == ParseMarkdown

\* A document is at hand; nothing else is in use.
ParserStart ==
  /\ RelayInit /\ ClientInit /\ DispatcherInit /\ ParserInit /\ ToolIdle
  /\ ExecutorIdle /\ ListenerIdle

ParserSpec == ParserStart /\ [][ParserNext]_vars


\* ================================================= markdown-to-slides tool
\* Decimal digits of a slide index or count.
Digits(n) == IF n < 10 THEN 1 ELSE IF n < 100 THEN 2 ELSE 3
\* Math.ceil(n / 2)
CeilHalf(n) == (n + 1) \div 2
\* The title of the slide made when no heading is found.
Untitled == Title("Untitled", 8)
\* `{ id: `slide-${index++}`, title: match[1], layout: 'content', block_count: 1 }`
ToolSlide(index, title) ==
  [id |-> "slide-" \o ToString(index), title |-> title, layout |-> "content",
   block_count |-> 1]
\* The slides the heading regex finds, or the single untitled slide.
ToolSlides(md) ==
  IF Len(md) = 0 THEN <<ToolSlide(0, Untitled)>>
  ELSE [i \in 1..Len(md) |-> ToolSlide(i - 1, md[i])]
\* `const output = { slide_count: slides.length, slides, success: true }`;
\* the fields `truncated` and `truncation_message` are absent from it.
Output(slides) ==
  [slide_count |-> Len(slides), slides |-> slides, success |-> TRUE,
   truncated |-> FALSE, truncation_message |-> ""]
\* `truncatedOutput`
TruncatedOutput(output) ==
  LET kept == CeilHalf(Len(output.slides)) IN
    [output EXCEPT
       !.slides = SubSeq(output.slides, 1, kept),
       !.truncated = TRUE,
       !.truncation_message =
          "Response truncated from " \o ToString(Len(output.slides)) \o " to "
            \o ToString(kept) \o " slides."]

\* JSON.stringify(output, null, 2).length for an output without the
\* truncation fields: 58 characters of frame, the digits of slide_count, and
\* for each slide 104 characters, the digits of its index and its title.
RECURSIVE SlidesJsonLength(_)
SlidesJsonLength(slides) ==
  IF slides = <<>> THEN 0
  ELSE SlidesJsonLength(SubSeq(slides, 1, Len(slides) - 1))
         + 104 + Digits(Len(slides) - 1) + slides[Len(slides)].title.length
JsonLength(output) ==
  58 + Digits(output.slide_count) + SlidesJsonLength(output.slides)

\* The handler's local `text` after the length test: the serialisation of the
\* truncated output when that of the output is over the limit.
HandlerText(output) ==
  IF JsonLength(output) > CHARACTER_LIMIT THEN TruncatedOutput(output) ELSE output

\* formatResponse(data, format, markdownFormatter): the text is the rendering of
\* `data` in the format asked for, and `structured` is `data`.
formatResponse(data, format) ==
  [text |-> [format |-> format, of |-> data], structured |-> data]

\* The handler of ppt_from_markdown.
FromMarkdown(format) ==
  /\ toolResponse = NoResponse
  /\ LET output == Output(ToolSlides(markdown))
         text == HandlerText(output)
         formatted == formatResponse(output, format)
     IN toolResponse' = [given |-> TRUE, content |-> formatted.text,
                         structuredContent |-> formatted.structured]
  /\ UNCHANGED markdown
  /\ UNCHANGED beyondTool

ToolNext == \E format \in ResponseFormats : FromMarkdown(format)

\* A call of the tool is about to be handled; nothing else is in use.
ToolStart ==
  /\ RelayInit /\ ClientInit /\ DispatcherInit /\ ParserIdle /\ ToolInit
  /\ ExecutorIdle /\ ListenerIdle

ToolSpec == ToolStart /\ [][ToolNext]_vars


\* ---------------------------------------------------------------- notions
\* The calls that went through sendToBrowser and were given an id.
Issued == {c \in 1..Len(promises) : promises[c].id # ""}
\* The promise of the latest call.
LastPromise(ps) == ps[Len(ps)]
\* A request frame was written to socket s.
RequestSentOn(s) == \E i \in 1..Len(sent[s]) : sent[s][i].type = "request"
ReadOnlyMethods == {"getPresentationInfo", "listSlides", "generateFromMarkdown"}
MutatingMethods == Methods \ ReadOnlyMethods

\* ------------------------------------------------------------------- C1
\* C1 (as stated): at every instant, the close handler's await included, the
\* executor connection is non-null exactly when the operations object bound
\* into the dispatcher is the bridged one.
BackendConsistent ==
  (browserConnection # NULL) <=> (currentOperations = "bridged")

\* What does hold of C1: the two disagree only while the close handler is
\* suspended at its await.
BackendConsistentWhenIdle ==
  closeAwait = NULL => BackendConsistent

\* ------------------------------------------------------------------- C2
\* C2: at most one executor socket is attached.  Every open socket is the
\* attached one; accepting a socket while another is attached closes the old
\* one, attaches the new one and binds the bridged operations; and a call made
\* while the attached socket is open is relayed on that socket.
SingleTenancy ==
  /\ [](\A s \in Sockets : readyState[s] = "open" => browserConnection = s)
  /\ [][\A s \in Sockets : Connection(s) =>
          /\ browserConnection' = s
          /\ readyState'[s] = "open"
          /\ currentOperations' = "bridged"
          /\ browserConnection # NULL => readyState'[browserConnection] = "closing"
       ]_vars
  /\ [][\A m \in CalledMethods, now \in Times :
          ( /\ InvokeOperation(m, now)
            /\ browserConnection # NULL
            /\ readyState[browserConnection] = "open" ) =>
              /\ LastPromise(promises').state = "pending"
              /\ sent'[browserConnection] =
                   Append(sent[browserConnection],
                          [type |-> "request", id |-> LastPromise(promises').id,
                           method |-> m])
              /\ \A t \in Sockets \ {browserConnection} : sent'[t] = sent[t]
       ]_vars

\* A second socket evicted the first (still closing) and a request has been
\* relayed on the new one.
SingleTenancyWitness ==
  /\ browserConnection # NULL
  /\ readyState[browserConnection] = "open"
  /\ \E old \in Sockets \ {browserConnection} : readyState[old] = "closing"
  /\ RequestSentOn(browserConnection)

\* ------------------------------------------------------------------- C3
\* C3: the ids given to requests are pairwise distinct over the whole run, and
\* every entry of the pending map belongs to exactly one unsettled call (no
\* entry was overwritten by a later call).
CorrelationIdsUnique ==
  /\ \A c, d \in Issued : c # d => promises[c].id # promises[d].id
  /\ \A id \in DOMAIN pendingRequests :
       Cardinality({c \in Issued : promises[c].id = id /\ promises[c].state = "pending"}) = 1
  /\ Cardinality(DOMAIN pendingRequests) =
       Cardinality({c \in Issued : promises[c].state = "pending"})

\* Two requests were issued on two different sockets (across a reconnect).
CorrelationIdsUniqueWitness ==
  /\ Cardinality(Issued) >= 2
  /\ \E s, t \in Sockets : s # t /\ RequestSentOn(s) /\ RequestSentOn(t)

\* ------------------------------------------------------------------- C4
\* C4: a response frame with id X settles the pending request with id X and
\* only it: its entry and timer go, every other promise, entry and timer stays
\* as it was, whatever the order of the responses.
ResponseRoutedById ==
  [][\A id \in DOMAIN pendingRequests : \A b \in ResponseBodies : \A s \in Sockets :
       LET f == ResponseFrame(id, b) IN
       Message(s, f) =>
         LET c == pendingRequests[f.id].resolve IN
           /\ promises[c].id = f.id
           /\ promises[c].state = "pending"
           /\ promises'[c].state # "pending"
           /\ \A d \in 1..Len(promises) : d # c => promises'[d] = promises[d]
           /\ DOMAIN pendingRequests' = (DOMAIN pendingRequests) \ {f.id}
           /\ \A k \in DOMAIN pendingRequests' : pendingRequests'[k] = pendingRequests[k]
           /\ timers' = timers \ {c}
    ]_vars

\* The second request was answered while the first is still pending.
ResponseRoutedByIdWitness ==
  /\ Len(promises) >= 2
  /\ promises[1].id # "" /\ promises[1].state = "pending"
  /\ promises[1].id \in DOMAIN pendingRequests /\ 1 \in timers
  /\ promises[2].id # "" /\ promises[2].state = "resolved"

\* ------------------------------------------------------------------- C5
\* C5: sendToBrowser with no socket attached, or with the attached socket not
\* open, returns a promise already rejected with the not-connected error and
\* leaves the counter, the pending map, the timers and the sockets untouched;
\* no frame is ever written for such a call.
NotConnectedFailsFast ==
  /\ [](\A m \in Methods, now \in Times :
          (browserConnection = NULL \/ readyState[browserConnection] # "open") =>
            LET r == SendToBrowser(Len(promises) + 1, m, now) IN
              /\ r.promise.state = "rejected"
              /\ r.promise.error = NotConnectedError
              /\ r.requestId = requestId
              /\ r.pendingRequests = pendingRequests
              /\ r.timers = timers
              /\ r.sent = sent)
  /\ [][\A m \in CalledMethods, now \in Times :
          ( /\ InvokeOperation(m, now)
            /\ currentOperations = "bridged"
            /\ (browserConnection = NULL \/ readyState[browserConnection] # "open") ) =>
              /\ LastPromise(promises').state = "rejected"
              /\ LastPromise(promises').error = NotConnectedError
              /\ UNCHANGED <<requestId, pendingRequests, timers, sent>>
       ]_vars
  /\ [](\A s \in Sockets : \A i \in 1..Len(sent[s]) :
          sent[s][i].type = "request" =>
            \E c \in Issued : promises[c].id = sent[s][i].id)

\* A bridged listSlides call was refused (the mock would have answered it), and
\* a later socket is attached and open with nothing relayed on it.
NotConnectedFailsFastWitness ==
  /\ \E c \in 1..Len(promises) :
       /\ promises[c].method = "listSlides"
       /\ promises[c].state = "rejected"
       /\ promises[c].error = NotConnectedError
  /\ browserConnection # NULL
  /\ readyState[browserConnection] = "open"
  /\ ~RequestSentOn(browserConnection)
  /\ pendingRequests = EmptyMap

\* ------------------------------------------------------------------- C6
\* C6: the timeout callback removes the entry of its id and rejects the call
\* with the timeout error; a response whose id has no entry changes no promise,
\* no entry and no timer; and a settled call never has an entry again.
TimeoutRemovesEntry ==
  /\ [][\A c \in 1..MaxCalls : Timeout(c) =>
          /\ promises[c].id \notin DOMAIN pendingRequests'
          /\ promises'[c].state = "rejected"
          /\ promises'[c].error = TimeoutError
       ]_vars
  /\ [][\/ UNCHANGED <<pendingRequests, promises, timers>>
        \/ \A s \in Sockets : \A b \in ResponseBodies :
             \A id \in (IssuedIds \cup {UnknownId}) \ DOMAIN pendingRequests :
               ~Message(s, ResponseFrame(id, b))
       ]_vars
  /\ [](\A c \in 1..Len(promises) :
          promises[c].state # "pending" => promises[c].id \notin DOMAIN pendingRequests)

\* A call timed out while a socket can still deliver its late response.
TimeoutRemovesEntryWitness ==
  \E c \in Issued :
    /\ promises[c].state = "rejected"
    /\ promises[c].error = TimeoutError
    /\ promises[c].id \notin DOMAIN pendingRequests
    /\ \E s \in Sockets : readyState[s] \in {"open", "closing"}

\* ------------------------------------------------------------------- C7
\* C7 (under FairSpec): every call that is pending is eventually settled and
\* its entry destroyed, whatever the executor does.  A run issues finitely
\* many calls, so from some point on no call is pending and no entry is left.
EveryPendingRequestSettles ==
  <>[](\A c \in 1..Len(promises) :
         /\ promises[c].state # "pending"
         /\ promises[c].id \notin DOMAIN pendingRequests)

\* A call was settled by its timeout after its executor had gone for good.
EveryPendingRequestSettlesWitness ==
  /\ browserConnection = NULL
  /\ \A s \in Sockets : readyState[s] \in {"none", "closed"}
  /\ \E c \in Issued : promises[c].state = "rejected" /\ promises[c].error = TimeoutError

\* ------------------------------------------------------------------- C8
\* C8: the timeout of one call changes no other call: their promises, entries
\* and timers stay as they were, and every pending call keeps its own entry and
\* armed timer, so its own response still settles it.
TimeoutIsolation ==
  /\ [][\A c \in 1..MaxCalls : Timeout(c) =>
          /\ \A d \in 1..Len(promises) : d # c => promises'[d] = promises[d]
          /\ timers' = timers \ {c}
          /\ \A k \in DOMAIN pendingRequests :
               k # promises[c].id =>
                 k \in DOMAIN pendingRequests' /\ pendingRequests'[k] = pendingRequests[k]
       ]_vars
  /\ [](\A d \in 1..Len(promises) :
          promises[d].state = "pending" =>
            /\ d \in timers
            /\ promises[d].id \in DOMAIN pendingRequests
            /\ pendingRequests[promises[d].id] = [resolve |-> d, reject |-> d, timeout |-> d])

\* One call has timed out while another is still pending with its entry and
\* its timer.
TimeoutIsolationWitness ==
  \E c, d \in Issued :
    /\ promises[c].state = "rejected" /\ promises[c].error = TimeoutError
    /\ promises[d].state = "pending"
    /\ d \in timers
    /\ promises[d].id \in DOMAIN pendingRequests

\* ------------------------------------------------------------------- C9
\* C9 (as stated): a response frame that carries an error string rejects the
\* call with exactly that string; one that carries none resolves it with the
\* frame's result.
ErrorForwardedVerbatim ==
  [][\A id \in DOMAIN pendingRequests : \A b \in ResponseBodies : \A s \in Sockets :
       LET f == ResponseFrame(id, b) IN
       Message(s, f) =>
         LET c == pendingRequests[f.id].resolve IN
           IF f.hasError
           THEN promises'[c].state = "rejected" /\ promises'[c].error = f.error
           ELSE promises'[c].state = "resolved" /\ promises'[c].result = f.result
    ]_vars

\* ------------------------------------------------------------------- C10
\* C10 (as stated): while no executor is attached, every operation called
\* through the bound operations object fails with the not-connected error.
NoExecutorEveryCallFails ==
  [][\A m \in Methods, now \in Times :
       (browserConnection = NULL /\ InvokeOperation(m, now)) =>
         /\ LastPromise(promises').state = "rejected"
         /\ LastPromise(promises').error = NotConnectedError
    ]_vars

\* C10 (amended): while no executor is attached no operation hangs or touches
\* the bridge state; the six mutating operations fail with the not-connected
\* error, and the mock's getPresentationInfo, listSlides and
\* generateFromMarkdown answer with a placeholder or a local parse.
NoExecutorNoCallHangs ==
  /\ [](browserConnection = NULL =>
          \A m \in Methods, now \in Times :
            LET r == Operations(currentOperations, Len(promises) + 1, m, now) IN
              /\ r.promise.state # "pending"
              /\ r.requestId = requestId
              /\ r.pendingRequests = pendingRequests
              /\ r.timers = timers
              /\ r.sent = sent
              /\ m \in MutatingMethods =>
                   r.promise.state = "rejected" /\ r.promise.error = NotConnectedError
              /\ (m \in ReadOnlyMethods /\ currentOperations = "mock") =>
                   /\ r.promise.state = "resolved"
                   /\ r.promise.result \in {MockPresentationInfo, MockSlideList, MockParsedSlides})
  /\ [][\A m \in CalledMethods, now \in Times :
          (browserConnection = NULL /\ InvokeOperation(m, now)) =>
            /\ UNCHANGED <<requestId, pendingRequests, timers, sent>>
            /\ LastPromise(promises').state # "pending"
            /\ m \in MutatingMethods =>
                 /\ LastPromise(promises').state = "rejected"
                 /\ LastPromise(promises').error = NotConnectedError
       ]_vars

\* Before any executor ever connected, createSlide was refused and listSlides
\* was answered by the mock.
NoExecutorNoCallHangsWitness ==
  /\ \A s \in Sockets : readyState[s] = "none"
  /\ \E c \in 1..Len(promises) :
       /\ promises[c].method = "createSlide"
       /\ promises[c].state = "rejected"
       /\ promises[c].error = NotConnectedError
  /\ \E c \in 1..Len(promises) :
       /\ promises[c].method = "listSlides"
       /\ promises[c].state = "resolved"
       /\ promises[c].result = MockSlideList

\* ------------------------------------------------------------------ C11
\* C11: when the attached executor socket closes, the connection reference
\* becomes null and, once the close handler has run to its end, the bound
\* operations are the mock ones; while no socket is attached a call creates
\* no pending request, arms no timer, writes no frame and is settled at once.
ClosedConnectionRebindsMock ==
  /\ [][\A s \in Sockets :
          (Close(s) /\ browserConnection = s) => browserConnection' = NULL]_vars
  /\ [][CloseResume =>
          (browserConnection' = NULL /\ currentOperations' = "mock")]_vars
  /\ (closeAwait # NULL)
       ~> (Idle /\ browserConnection = NULL /\ currentOperations = "mock")
  /\ [][\A m \in CalledMethods, now \in Times :
          (InvokeOperation(m, now) /\ browserConnection = NULL) =>
            /\ UNCHANGED <<pendingRequests, timers, sent, requestId>>
            /\ LastPromise(promises').state # "pending"]_vars
\* A call made after the executor of an earlier relayed call closed was
\* answered by the mock operations.
ClosedConnectionRebindsMockWitness ==
  /\ Len(promises) = 2
  /\ promises[1].id # ""
  /\ promises[2].method = "listSlides"
  /\ promises[2].state = "resolved"
  /\ promises[2].result = MockSlideList
  /\ browserConnection = NULL
  /\ currentOperations = "mock"

\* ------------------------------------------------------------------ C12
\* C12: connect() called while the state is connecting or connected opens no
\* socket, leaves the state, the socket reference, the reconnect counter and
\* the timers as they are, and emits no event.
ConnectIsIdempotent ==
  [][(Connect /\ state \in {"connecting", "connected"}) =>
       /\ UNCHANGED <<state, ws, reconnectAttempts, reconnectTimer, socket,
                      pendingTimers, timerDelay>>
       /\ emitted' = <<>>]_vars
\* The second of two connect() calls found the client connecting.
ConnectIsIdempotentWitness ==
  /\ lastTask = "connect"
  /\ userCalls = 2
  /\ state = "connecting"
  /\ emitted = <<>>
  /\ Cardinality({k \in ClientSockets : socket[k] # "none"}) = 1

\* ------------------------------------------------------------------ C13
\* C13: reconnectAttempts is between 0 and maxReconnectAttempts in every
\* reachable state of the client.
ReconnectAttemptsBounded ==
  reconnectAttempts \in 0..maxReconnectAttempts

\* ------------------------------------------------------------------ C14
\* C14: once reconnectAttempts has reached maxReconnectAttempts, and until the
\* add-in calls connect() itself, no task arms a timer or opens a socket, and
\* the client at rest (no socket alive, no timer armed) is `disconnected`.
ExhaustedStopsReconnecting ==
  /\ [][(/\ reconnectAttempts >= maxReconnectAttempts
         /\ ~Connect
         /\ \A url \in ServerUrls : ~SetServerUrl(url)) =>
          /\ pendingTimers' \subseteq pendingTimers
          /\ \A k \in ClientSockets : socket[k] = "none" => socket'[k] = "none"]_vars
  /\ []((/\ reconnectAttempts >= maxReconnectAttempts
         /\ pendingTimers = {}
         /\ \A k \in ClientSockets : socket[k] = "none") =>
          state = "disconnected")

\* ------------------------------------------------------------------ C15
\* C15: after disconnect(), and until the add-in calls connect(), the state
\* is `disconnected`, no reconnect timer is armed and no socket is connecting
\* or open, also after the close event of the closed socket was delivered.
DisconnectStopsReconnecting ==
  userDisconnected =>
    /\ pendingTimers = {}
    /\ \A k \in ClientSockets : socket[k] \notin {"connecting", "open"}
    /\ ws = NULL

\* ------------------------------------------------------------------ C16
\* C16: the error event of a socket sets the state to `error` and emits an
\* `error` event with the detail; the close handler of the failed socket is
\* the next thing to run, it does run, and it arms a reconnect timer unless
\* the attempts are used up.  A constructor that throws sets `error` and
\* schedules in the same way.
SocketErrorSchedulesReconnect ==
  /\ [][\A k \in ClientSockets : OnError(k) =>
          /\ state' = "error"
          /\ \E i \in 1..Len(emitted') : emitted'[i] = Event("error", ErrorDetail)]_vars
  /\ [][\A k \in ClientSockets : socket[k] = "failed" =>
          /\ socket'[k] = "none"
          /\ lastTask' = "onclose"
          /\ \/ reconnectAttempts' >= maxReconnectAttempts
             \/ reconnectTimer' \in pendingTimers']_vars
  /\ (\E k \in ClientSockets : socket[k] = "failed")
       ~> (\A k \in ClientSockets : socket[k] # "failed")
  /\ [][((Connect \/ \E h \in TimerHandles : ReconnectTimer(h))
          /\ ConstructorThrows(serverUrl)
          /\ state \notin {"connecting", "connected"}) =>
          /\ state' = "error"
          /\ \/ reconnectAttempts' >= maxReconnectAttempts
             \/ reconnectTimer' \in pendingTimers']_vars
\* A socket failed and its close handler armed a reconnect timer.
SocketErrorSchedulesReconnectWitness ==
  /\ lastTask = "onclose"
  /\ state = "disconnected"
  /\ reconnectTimer \in pendingTimers
  /\ reconnectAttempts = 1
  /\ userCalls = 1

\* ------------------------------------------------------------------ C17
\* C17: the close event of a socket, after a disconnect() included, sets the
\* state to `disconnected`, clears the socket reference, emits `disconnected`
\* and runs the reconnect scheduler: a timer is armed if and only if the
\* attempts are not used up.
SocketCloseSchedulesReconnect ==
  [][\A k \in ClientSockets : OnClose(k) =>
       /\ state' = "disconnected"
       /\ ws' = NULL
       /\ emitted'[Len(emitted')] = Event("disconnected", "")
       /\ IF reconnectAttempts < maxReconnectAttempts
          THEN /\ reconnectTimer' \in pendingTimers'
               /\ Cardinality(pendingTimers') = Cardinality(pendingTimers) + 1
          ELSE UNCHANGED <<pendingTimers, reconnectTimer>>]_vars
\* The close event of a socket the add-in had closed with disconnect() armed a
\* timer.
SocketCloseSchedulesReconnectWitness ==
  /\ lastTask = "onclose"
  /\ userDisconnected
  /\ state = "disconnected"
  /\ reconnectTimer \in pendingTimers

\* ------------------------------------------------------------------ C18
\* 2000 * 1.5^k for k = 0..9, in units of 1/512 ms.
ExpectedDelays ==
  <<2000 * 512, 3000 * 512, 4500 * 512, 6750 * 512, 10125 * 512, 7776000,
    11664000, 17496000, 26244000, 39366000>>
\* C18: a timer is armed with the delay 2000 ms * 1.5^reconnectAttempts, the
\* counter being read when the timer is armed, and the counter grows by one
\* when a timer fires.
BackoffDelay ==
  /\ [][\A h \in TimerHandles :
          (h \in pendingTimers' /\ (h \notin pendingTimers \/ ReconnectTimer(h))) =>
            /\ reconnectAttempts' < maxReconnectAttempts
            /\ timerDelay'[h] = ExpectedDelays[reconnectAttempts' + 1]]_vars
  /\ [][\A h \in TimerHandles :
          ReconnectTimer(h) => reconnectAttempts' = reconnectAttempts + 1]_vars
\* Five attempts failed in a row; the sixth is scheduled after 15187.5 ms.
BackoffDelayWitness ==
  /\ reconnectAttempts = 5
  /\ userCalls = 1
  /\ reconnectTimer \in pendingTimers
  /\ timerDelay[reconnectTimer] = 7776000

\* ------------------------------------------------------------------ C19
\* C19: the state becomes `connected` only from `connecting`, by the open
\* event of the socket the client holds; it becomes `connecting` only by
\* connect() (the add-in's or the timer's) from `disconnected` or `error`, or
\* by setServerUrl() reconnecting.
StateTransitionsAllowed ==
  [][/\ (state' = "connected" /\ state # "connected") =>
          /\ state = "connecting"
          /\ \E k \in ClientSockets : OnOpen(k) /\ ws = k
     /\ (state' = "connecting" /\ state # "connecting") =>
          \/ /\ state \in {"disconnected", "error"}
             /\ Connect \/ \E h \in TimerHandles : ReconnectTimer(h)
          \/ \E url \in ServerUrls : SetServerUrl(url)]_vars

\* ------------------------------------------------------------------ C20
\* C20: setOperations changes no tool call; every operation is served by the
\* object that was bound when its handler was invoked, never by one installed
\* later; a tool call handled after the swap invokes the new object.
SwapKeepsCapturedImplementation ==
  /\ [][SetOperations => UNCHANGED <<toolCalls, toolStats>>]_vars
  /\ [](\A i \in 1..Len(toolCalls) :
          toolCalls[i].servedBy # NoImpl =>
            /\ toolCalls[i].servedBy = toolCalls[i].impl
            /\ toolCalls[i].servedBy <= toolCalls[i].settledUnder)
  /\ [][\A tool \in RegisteredTools, contentType \in ContentTypes :
          (HandleToolCall(tool, contentType) /\ running
             /\ HandlerMethod(tool, contentType) # NoOperation) =>
            toolCalls'[Len(toolCalls')].impl = operations]_vars
\* The object was swapped while the first call was in flight; the first call
\* was served by the object it had invoked, the second invoked the new one.
SwapKeepsCapturedImplementationWitness ==
  /\ Len(toolCalls) = 2
  /\ toolCalls[1].impl = ConstructorOperations
  /\ toolCalls[1].servedBy = ConstructorOperations
  /\ toolCalls[1].settledUnder = 1
  /\ toolCalls[2].impl = 1

\* ------------------------------------------------------------------ C21
\* C21: a tool call whose arguments violate the tool's schema invokes no
\* operation and is not counted, and it is answered with an error.
InvalidInputRejected ==
  /\ [][\A tool \in RegisteredTools, contentType \in ContentTypes :
         (HandleToolCall(tool, contentType) /\ running
            /\ ~SchemaValid(tool, contentType)) =>
           /\ toolCalls'[Len(toolCalls')].method = NoOperation
           /\ UNCHANGED toolStats]_vars
  /\ [][\A i \in 1..MaxToolCalls, outcome \in Outcomes :
         (OperationSettles(i, outcome) /\ toolCalls[i].method = NoOperation) =>
           toolCalls'[i].response.isError]_vars

\* ------------------------------------------------------------------ C22
\* C22: a call of a tool that is not registered is answered with the
\* unknown-tool error; no operation is invoked and no statistics change.
UnknownToolRejected ==
  [][\A contentType \in ContentTypes :
       (HandleToolCall(UnknownTool, contentType) /\ running) =>
         /\ toolCalls'[Len(toolCalls')].response =
              ErrorResponse(-32602, "Unknown tool: ppt_no_such_tool")
         /\ toolCalls'[Len(toolCalls')].method = NoOperation
         /\ toolCalls'[Len(toolCalls')].impl = NoImpl
         /\ UNCHANGED <<toolStats, operations>>]_vars
\* A running dispatcher was asked for a tool it does not have.
UnknownToolRejectedWitness ==
  \E i \in 1..Len(toolCalls) :
    /\ toolCalls[i].tool = UnknownTool
    /\ toolCalls[i].response.code = -32602
    /\ \A t \in RegisteredTools : toolStats[t].calls = 0

\* ------------------------------------------------------------------ C23
\* C23: every call of a registered tool handled by a running dispatcher
\* invokes an operation, and invokes it once.
ExactlyOneOperationPerCall ==
  \A i \in 1..Len(toolCalls) :
    (IsRegistered(toolCalls[i].tool) /\ toolCalls[i].response # NotRunningResponse) =>
      /\ toolCalls[i].method # NoOperation
      /\ toolCalls[i].impl # NoImpl

\* ------------------------------------------------------------------ C24
\* C24: an operation that fails gives the caller an error result with the
\* message of the operation's Error, never a success, and the failure is
\* counted once for its tool.
OperationFailureReturned ==
  [][\A i \in 1..Len(toolCalls), outcome \in Outcomes :
       (OperationSettles(i, outcome) /\ outcome.kind # "returned") =>
         /\ toolCalls'[i].response.isError
         /\ ~ToolResult(toolCalls'[i].response).success
         /\ outcome.kind = "Error" =>
              ToolResult(toolCalls'[i].response).error = outcome.message
         /\ toolStats'[toolCalls[i].tool].errors = toolStats[toolCalls[i].tool].errors + 1
         /\ \A j \in 1..Len(toolCalls) : j # i => toolCalls'[j] = toolCalls[j]]_vars
\* An operation failed with "Slide not found" and its caller was told so.
OperationFailureReturnedWitness ==
  \E i \in 1..Len(toolCalls) :
    /\ toolCalls[i].servedBy # NoImpl
    /\ toolCalls[i].response = ErrorResponse(-32000, "Slide not found: slide-9")
    /\ toolStats[toolCalls[i].tool].errors = 1

\* ------------------------------------------------------------------ C29
\* C29: the close of the executor's socket, its eviction by a new connection
\* and the close handler's continuation leave every pending request as it
\* is: entry, timer and promise.  A pending request keeps its timer, and it
\* stops being pending only by its own timeout, with the timeout error, or by
\* a response carrying its id, on whichever socket that response arrives.
CloseLeavesPendingRequests ==
  /\ [][((\E s \in Sockets : Close(s) \/ Connection(s) \/ SocketClosing(s))
           \/ CloseResume) =>
         UNCHANGED <<pendingRequests, timers, promises>>]_vars
  /\ [](\A c \in 1..Len(promises) :
          promises[c].state = "pending" =>
            c \in timers /\ MapHas(pendingRequests, promises[c].id))
  /\ [][\A c \in 1..Len(promises) :
         (promises[c].state = "pending" /\ promises'[c].state # "pending") =>
           \/ Timeout(c) /\ promises'[c] = Reject(promises[c], TimeoutError)
           \/ \E s \in Sockets :
                /\ readyState[s] # "closed"
                /\ \E b \in ResponseBodies :
                     Message(s, ResponseFrame(promises[c].id, b))]_vars
\* The only socket ever accepted has closed, its close handler has finished,
\* and the request written to it is still pending with its timer armed.
CloseLeavesPendingRequestsWitness ==
  /\ Idle
  /\ browserConnection = NULL
  /\ readyState[1] = "closed"
  /\ \E c \in 1..Len(promises) :
       /\ promises[c].state = "pending"
       /\ promises[c].id \in ReceivedIds(1)
       /\ c \in timers
       /\ MapHas(pendingRequests, promises[c].id)

\* ------------------------------------------------------------------ C26
\* The layout the priority order of C26 gives to a list of blocks, case by case.
ExpectedLayout(blocks) ==
  LET n == Len(blocks)
      codeFocus == HasBlock(blocks, "code") /\ n <= 2
      imageFocus == HasBlock(blocks, "image") \/ HasBlock(blocks, "mermaid")
  IN CASE n = 0 -> "title"
       [] n > 0 /\ codeFocus -> "code-focus"
       [] n > 0 /\ ~codeFocus /\ imageFocus -> "image-focus"
       [] n > 0 /\ ~codeFocus /\ ~imageFocus /\ n >= 4 -> "two-column"
       [] OTHER -> "content"
\* C26: every slide parseMarkdown returns, the last included, has the layout
\* the priority order gives to its blocks.
LayoutFollowsPriority ==
  \A r \in 1..Len(results) : \A i \in 1..Len(results[r]) :
    results[r][i].layout = ExpectedLayout(results[r][i].blocks)
\* The last of several slides holds a code block and a mermaid block and
\* nothing else, and is code-focus; an earlier one has no block and is title.
LayoutFollowsPriorityWitness ==
  \E r \in 1..Len(results) :
    LET slides == results[r] IN
      /\ Len(slides) >= 2
      /\ slides[1].layout = "title"
      /\ Len(slides[Len(slides)].blocks) = 2
      /\ HasBlock(slides[Len(slides)].blocks, "code")
      /\ HasBlock(slides[Len(slides)].blocks, "mermaid")
      /\ slides[Len(slides)].layout = "code-focus"

\* ------------------------------------------------------------------ C27
\* The positions of the level-1 and level-2 headings of the document.
SlideHeadings == {i \in 1..Len(tokens) : StartsSlide(tokens[i])}
\* A token before the first such heading yields a content block.
ContentPrecedesHeadings ==
  \E i \in 1..Len(tokens) :
    /\ \A h \in SlideHeadings : i < h
    /\ tokenToBlock(tokens[i]) # NoBlock
\* C27: parseMarkdown returns one slide per level-1 or level-2 heading, plus
\* one leading untitled slide exactly when content precedes the first such
\* heading; ids are slide-0, slide-1, ... in order, and a heading's slide
\* carries the heading's text.
SlidesFollowHeadings ==
  \A r \in 1..Len(results) :
    LET slides == results[r]
        leading == IF ContentPrecedesHeadings THEN 1 ELSE 0
    IN /\ Len(slides) = Cardinality(SlideHeadings) + leading
       /\ \A i \in 1..Len(slides) : slides[i].id = "slide-" \o ToString(i - 1)
       /\ leading = 1 => slides[1].title = ""
       /\ \A h \in SlideHeadings :
            LET k == Cardinality({g \in SlideHeadings : g <= h}) + leading
            IN k <= Len(slides) /\ slides[k].title = tokens[h].text

\* ------------------------------------------------------------------ C25
\* C25: when the JSON serialisation of the tool's result is longer than
\* CHARACTER_LIMIT, the response, both its text and its structured content, is
\* marked truncated, carries a truncation message and keeps at most half the
\* slides, rounded up; when it fits, the response is not marked and holds
\* every slide.
TruncationPolicy ==
  toolResponse.given =>
    LET slides == ToolSlides(markdown)
        returned == {toolResponse.content.of, toolResponse.structuredContent}
    IN IF JsonLength(Output(slides)) > CHARACTER_LIMIT
       THEN \A data \in returned :
              /\ data.truncated
              /\ data.truncation_message # ""
              /\ Len(data.slides) <= CeilHalf(Len(slides))
       ELSE \A data \in returned :
              /\ ~data.truncated
              /\ data.slides = slides

\* ------------------------------------------------------------------ C30
\* The responses written for request i.
ResponsesTo(frames, i) ==
  {n \in 1..Len(frames) :
     frames[n].frame.type = "response" /\ frames[n].frame.id = requests[i].id}
\* C30: a request whose method settles in the task in which it arrived (on an
\* open socket, which is still open when the task ends) has been answered
\* with exactly one response frame carrying its id, and no request is ever
\* answered twice.
OneResponsePerRequest ==
  /\ [][\A i \in 1..MaxRequests :
         (/\ Len(requests) < i
          /\ Len(requests') >= i
          /\ requests'[i].status = "settled"
          /\ socket'[requests'[i].socket] = "open")
           => Cardinality({n \in 1..Len(sentFrames') :
                             /\ sentFrames'[n].frame.type = "response"
                             /\ sentFrames'[n].frame.id = requests'[i].id}) = 1]_vars
  /\ [](\A i \in 1..Len(requests) : Cardinality(ResponsesTo(sentFrames, i)) <= 1)

\* ------------------------------------------------------------------ C32
\* C32: the close event of a socket that is not the attached one leaves the
\* relay as it was: the attached connection, the bound operations, the
\* suspended close handler, the counter, the pending requests, their timers
\* and promises, and what was sent.
StaleCloseChangesNothing ==
  [][\A s \in Sockets :
       (Close(s) /\ browserConnection # s) =>
         UNCHANGED <<browserConnection, currentOperations, closeAwait, requestId,
                     pendingRequests, timers, promises, sent>>]_vars
\* The evicted first socket has closed while the second is attached and open,
\* with the bridged operations bound and no close handler suspended.
StaleCloseChangesNothingWitness ==
  /\ readyState[1] = "closed"
  /\ browserConnection = 2
  /\ readyState[2] = "open"
  /\ currentOperations = "bridged"
  /\ closeAwait = NULL
  /\ Len(sent[2]) = 1

\* ------------------------------------------------------------------ C35
\* C35: a call is settled at most once.  A settled call has no armed timer
\* and no entry, so neither its timeout nor a response can reach it; its
\* promise never changes again; the timeout callback runs only for a call
\* that is pending; and a response for a settled call changes nothing.
SettledAtMostOnce ==
  /\ [](\A c \in 1..Len(promises) :
          promises[c].state # "pending" =>
            c \notin timers /\ ~MapHas(pendingRequests, promises[c].id))
  /\ [][\A c \in 1..Len(promises) :
          promises[c].state # "pending" => promises'[c] = promises[c]]_vars
  /\ [][\A c \in 1..MaxCalls :
          Timeout(c) => promises[c].state = "pending"]_vars
  /\ [][UNCHANGED <<pendingRequests, timers, promises>>
          \/ ~\E c \in 1..Len(promises) :
                /\ promises[c].state # "pending"
                /\ \E s \in Sockets : \E b \in ResponseBodies :
                     Message(s, ResponseFrame(promises[c].id, b))]_vars
\* A call was resolved by a response; its timer is gone, and the socket that
\* answered is still open and could answer again.
SettledAtMostOnceWitness ==
  \E c \in Issued : \E s \in Sockets :
    /\ promises[c].state = "resolved"
    /\ promises[c].id \in ReceivedIds(s)
    /\ readyState[s] = "open"
    /\ c \notin timers
    /\ timers # {}

\* ------------------------------------------------------------------ C33
\* C33: while the state is `connected` the client holds a socket and that
\* socket has opened (it is open, or closing since the server's Close frame);
\* and while the client holds a socket, an event of another, earlier socket
\* neither clears the reference nor changes the state.
ConnectedHoldsOpenSocket ==
  /\ [](state = "connected" => (ws # NULL /\ socket[ws] \in {"open", "closing"}))
  /\ [][\A k \in ClientSockets :
          ((OnOpen(k) \/ OnError(k) \/ OnClose(k)) /\ ws # NULL /\ ws # k) =>
            UNCHANGED <<ws, state>>]_vars

\* ------------------------------------------------------------------ C34
\* C34: at most one reconnect timer is pending; and the firing of a reconnect
\* timer adds one to reconnectAttempts and starts one connection attempt.
AtMostOneReconnectTimer ==
  /\ [](Cardinality(pendingTimers) <= 1)
  /\ [][\A h \in TimerHandles :
          ReconnectTimer(h) =>
            /\ reconnectAttempts' = reconnectAttempts + 1
            /\ \/ Cardinality({k \in ClientSockets : socket'[k] = "connecting"})
                    = Cardinality({k \in ClientSockets : socket[k] = "connecting"}) + 1
               \/ ConstructorThrows(serverUrl) /\ state' = "error"]_vars

\* ------------------------------------------------------------------ C36
\* C36: a request handled while the dispatcher is not running, whatever its
\* method, is answered with 'Server not running', invokes no operation and
\* changes no statistics; start() on a running dispatcher and stop() on one
\* that is not running change nothing; and the `started` and `stopped` events
\* alternate, beginning with `started`.
HandlesOnlyWhileRunning ==
  /\ [][\A tool \in RegisteredTools \cup {UnknownTool}, contentType \in ContentTypes,
          method \in OtherMethods :
          ((HandleToolCall(tool, contentType) \/ HandleRequest(method)) /\ ~running) =>
            /\ toolCalls'[Len(toolCalls')].response = NotRunningResponse
            /\ toolCalls'[Len(toolCalls')].impl = NoImpl
            /\ toolCalls'[Len(toolCalls')].method = NoOperation
            /\ UNCHANGED <<toolStats, operations, running, lifecycle>>]_vars
  /\ [][((Start /\ running) \/ (Stop /\ ~running)) => UNCHANGED vars]_vars
  /\ [](\A n \in 1..Len(lifecycle) :
          lifecycle[n] = IF n % 2 = 1 THEN "started" ELSE "stopped")
  /\ [](running <=> Len(lifecycle) % 2 = 1)
\* The dispatcher was started, stopped and started again, and a ping and a
\* tool call that came while it was stopped were refused.
HandlesOnlyWhileRunningWitness ==
  /\ lifecycle = <<"started", "stopped", "started">>
  /\ Len(toolCalls) = 2
  /\ toolCalls[1].tool = "ping"
  /\ toolCalls[1].response = NotRunningResponse
  /\ toolCalls[2].tool = "ppt_list_slides"
  /\ toolCalls[2].response = NotRunningResponse
  /\ \A t \in RegisteredTools : toolStats[t].calls = 0

\* ------------------------------------------------------------------ C31
\* C31: an emission in which a listener threw completed normally and called
\* every listener that was registered when it began, once each, in
\* registration order.
ThrowDoesNotStopEmission ==
  (/\ emission.emitted
   /\ \E n \in 1..Len(emission.called) : Throws(listenerKind[emission.called[n]]))
    => (emission.completed /\ emission.called = emission.registered)

====
